---- MODULE Spec2Model ----
(***************************************************************************)
(* Glyph geometry and typesetting pipeline of the font maker:              *)
(*   - SpacingDebugger.tsx  : the Typesetting Engine (layout loop)         *)
(*   - GlyphMetrics         : extractPathData, buildPathFromData,          *)
(*                            transformPath, computeBoundingBox            *)
(*   - FontMaker.tsx        : glyph records, kerning table, exportFont     *)
(*   - GlyphAutoTrace.ts    : the run-length raster tracer                 *)
(*                                                                         *)
(* JavaScript numbers are modelled as exact rationals [n, d] (d > 0, in    *)
(* lowest terms), so that multipliers such as 1.5, 1.12 or 1.08 and the    *)
(* ratio usedAdvance / baseAdvance are computed, not approximated.         *)
(***************************************************************************)
EXTENDS Integers, Sequences, FiniteSets, TLC

VARIABLES
    \* ---- FontMaker session state (FontMaker.tsx 127-155) ----
    glyphs,                  \* Record<string, GlyphData>
    kerningPairs,            \* Record<string, number>, keyed by kerningKey
    previewText,             \* string, as the sequence of its characters
    previewMode,             \* "typeset" | "monospace" | "grid" | "bounding"
    \* ---- SpacingDebugger props and memoised result ----
    letterSpacingMultiplier, \* prop of SpacingDebugger
    tracking,                \* prop of SpacingDebugger
    entries,                 \* the memoised layout (LayoutEntry[])
    \* ---- exportFont ----
    guides,                  \* GuideSet
    metadata,                \* FontMetadata
    font,                    \* the last font document built by exportFont
    status,                  \* the status line
    \* ---- transformPath, applied to an outline ----
    tPath,                   \* the input opentype.Path (its commands)
    tGlyph,                  \* the GlyphTransform
    tStyle,                  \* the style variant
    tOut,                    \* the result of transformPath
    tOut2,                   \* the result of transforming tOut once more
    \* ---- tracePNGtoSVG (run-length scan) ----
    image,                   \* ImageData: width, height, data (alpha channel)
    ty,                      \* loop variable y
    tx,                      \* loop variable x
    pathParts,               \* the emitted path parts
    tpc,                     \* "idle" | "scan" | "done"
    traced,                  \* the returned SVG document
    \* ---- persisted state and FontMaker state restored from it ----
    saved,                   \* the localStorage item "fontMakerState"
    mounted,                 \* whether FontMaker has been constructed
    letterSpacing,           \* FontMaker state letterSpacing
    FontMaker_tracking,      \* FontMaker state tracking
    \* ---- computeBoundingBox ----
    bbox,                    \* the last result of computeBoundingBox
    \* ---- the length of the session ----
    calls,                   \* slider and spacing-tool calls so far
    \* ---- artwork uploads ----
    selectedGlyph,           \* FontMaker state selectedGlyph
    inflight,                \* the traces awaited by dropped files
    bulk                     \* the bulk upload loop, None when it is not running

vars == << glyphs, kerningPairs, previewText, previewMode,
           letterSpacingMultiplier, tracking, entries,
           guides, metadata, font, status,
           tPath, tGlyph, tStyle, tOut, tOut2,
           image, ty, tx, pathParts, tpc, traced,
           saved, mounted, letterSpacing, FontMaker_tracking, bbox,
           calls, selectedGlyph, inflight, bulk >>

layoutVars == << glyphs, kerningPairs, previewText, previewMode,
                 letterSpacingMultiplier, tracking, entries >>
exportVars == << guides, metadata, font, status >>
transformVars == << tPath, tGlyph, tStyle, tOut, tOut2 >>
traceVars == << image, ty, tx, pathParts, tpc, traced >>
loadVars == << saved, mounted, letterSpacing, FontMaker_tracking >>
boxVars == << bbox >>
spacingVars == << calls >>
uploadVars == << selectedGlyph, inflight, bulk >>

\* an absent value (null, undefined, not yet produced) is the empty
\* sequence, a present value v the one-element sequence << v >>
None == << >>
Some(v) == << v >>

----------------------------------------------------------------------------
(* Numbers *)

Abs(i) == IF i < 0 THEN -i ELSE i

RECURSIVE GCD(_, _)
GCD(a, b) == IF b = 0 THEN a ELSE GCD(b, a % b)

\* the number n/d, normalised (d # 0)
Q(n, d) ==
    LET s == IF d < 0 THEN -1 ELSE 1
        g == GCD(Abs(n), Abs(d))
    IN  [n |-> (s * n) \div g, d |-> (s * d) \div g]

QI(i) == [n |-> i, d |-> 1]

QNeg(a)    == [n |-> -a.n, d |-> a.d]
QAdd(a, b) ==
    LET g == GCD(a.d, b.d)
    IN  Q(a.n * (b.d \div g) + b.n * (a.d \div g), (a.d \div g) * b.d)
QSub(a, b) == QAdd(a, QNeg(b))
QMul(a, b) ==
    LET g1 == GCD(Abs(a.n), b.d)
        g2 == GCD(Abs(b.n), a.d)
    IN  Q((a.n \div g1) * (b.n \div g2), (a.d \div g2) * (b.d \div g1))
QDiv(a, b) == QMul(a, [n |-> IF b.n < 0 THEN -b.d ELSE b.d, d |-> Abs(b.n)])
QLt(a, b)  == LET g == GCD(a.d, b.d) IN a.n * (b.d \div g) < b.n * (a.d \div g)
QLe(a, b)  == LET g == GCD(a.d, b.d) IN a.n * (b.d \div g) <= b.n * (a.d \div g)
QMax(a, b) == IF QLt(a, b) THEN b ELSE a
QMin(a, b) == IF QLt(b, a) THEN b ELSE a
QAbs(a)    == [n |-> Abs(a.n), d |-> a.d]

\* Math.round: the nearest integer, halves rounded towards +Infinity
MathRound(a) == (2 * a.n + a.d) \div (2 * a.d)

\* x || dflt on a number: 0 is falsy
OrElse(x, dflt) == IF x.n = 0 THEN dflt ELSE x

----------------------------------------------------------------------------
(* Bounds of the model *)

MaxText == 2        \* longest preview text
MaxKern == 1        \* most entries of the kerning table

(* The character repertoire: a two-character cut of GLYPHS *)
GLYPHS == << "A", "V" >>
GlyphSet == { GLYPHS[i] : i \in 1..Len(GLYPHS) }
TextChars == GlyphSet

Modes == { "typeset", "monospace", "grid", "bounding" }
Styles == { "Regular", "Bold", "Italic", "BoldItalic" }

\* values the sliders are moved to
AdvanceValues == { 600, 700 }         \* advance slider, 100..1600
BearingValues == { 0, 100 }           \* leftBearing slider, 0..800
KernValues    == { -200, -80 }        \* kerning slider, -200..200
\* the props letterSpacingMultiplier and tracking handed to SpacingDebugger:
\* FontMaker's 1 and 0, and a caller's 1.5 and 30
LayoutScalars == { << QI(1), 0 >>, << Q(3, 2), 30 >> }

Texts == UNION { [1..k -> TextChars] : k \in 0..MaxText }

----------------------------------------------------------------------------
(* Typesetting Engine: SpacingDebugger.tsx *)

GRID_SIZE == 20

(* The svg field of a glyph: null, the empty string, or the text of an SVG *)
(* document, held as what the DOM parser finds in it: whether there is an  *)
(* svg element, its width and height attributes (0 when absent), the last  *)
(* two numbers of its viewBox (0 when absent) and the d attributes of its  *)
(* path elements, each a sequence of path-data commands.                   *)
NullSvg ==
    [ kind |-> "null", svgEl |-> FALSE, width |-> 0, height |-> 0,
      vbWidth |-> 0, vbHeight |-> 0, paths |-> << >> ]
EmptySvg == [ NullSvg EXCEPT !.kind = "empty" ]

\* !glyph.svg
Falsy(svg) == svg.kind \in { "null", "empty" }

createDefaultGlyphs ==
    [ c \in GlyphSet |->
        [ svg |-> NullSvg, scale |-> QI(1), rotate |-> 0, x |-> QI(0), y |-> QI(0),
          advance |-> QI(600), leftBearing |-> QI(100), rightBearing |-> QI(100) ] ]

\* a plausible slip: the pair looked up in the wrong order
kerningKeySwapped(left, right) == right \o "_" \o left

kerningKey(left, right) == left \o "_" \o right

EmptyKerning == [ k \in {} |-> 0 ]

\* a plausible slip: the KerningTable never consulted
KernLookupNone(kp, key) == QI(0)

\* kerningPairs[key] || 0
KernLookup(kp, key) == IF key \in DOMAIN kp THEN QI(kp[key]) ELSE QI(0)

\* a plausible slip: Math.min in place of Math.max
UniformAdvanceMin(gl) ==
    LET advances == { OrElse(gl[c].advance, QI(0)) : c \in DOMAIN gl }
    IN  IF advances = {} THEN QI(600)
        ELSE CHOOSE a \in advances : \A b \in advances : QLe(a, b)

\* Math.max(...advances), or 600 for an empty table
UniformAdvance(gl) ==
    LET advances == { OrElse(gl[c].advance, QI(0)) : c \in DOMAIN gl }
    IN  IF advances = {} THEN QI(600)
        ELSE CHOOSE a \in advances : \A b \in advances : QLe(b, a)

\* a plausible slip: Math.floor in place of Math.round
SnapToGridFloor(v) ==
    LET q == QDiv(v, QI(GRID_SIZE)) IN QI((q.n \div q.d) * GRID_SIZE)

\* Math.round(v / GRID_SIZE) * GRID_SIZE
SnapToGrid(v) == QI(MathRound(QDiv(v, QI(GRID_SIZE))) * GRID_SIZE)

\* a plausible slip: the kerning added after the glyph is placed, not before
PlaceCursorLate(cursor, kern) == cursor

\* cursor += kern
PlaceCursor(cursor, kern) == QAdd(cursor, kern)

\* a plausible slip: the overlap test the wrong way round
CollidesReversed(glyphStart, prevEnd) == QLt(prevEnd, glyphStart)

\* collision = glyphStart < prevEnd
Collides(glyphStart, prevEnd) == QLt(glyphStart, prevEnd)

\* one iteration of the forEach over the characters of the text; st carries
\* the loop's locals cursor, prevEnd, last and the layout built so far
LayoutStep(st, char, idx, gl, kp, mode, lsm, trk) ==
    LET known       == char \in DOMAIN gl
        kern        == IF idx > 0 THEN KernLookup(kp, kerningKey(st.last, char)) ELSE QI(0)
        cursor      == PlaceCursor(st.cursor, kern)
        baseAdvance == IF known THEN gl[char].advance ELSE QI(600)
        baseLeft    == IF known THEN gl[char].leftBearing ELSE QI(80)
        baseRight   == IF known THEN gl[char].rightBearing ELSE QI(80)
        rawWidth    == QMax(QSub(QSub(baseAdvance, baseLeft), baseRight), QI(120))
        usedAdvance == IF mode = "monospace" THEN UniformAdvance(gl) ELSE baseAdvance
        ratio       == QDiv(usedAdvance, QMax(baseAdvance, QI(1)))
        advance     == QAdd(QMul(usedAdvance, lsm), QI(trk))
        left        == QMul(QMul(baseLeft, ratio), lsm)
        right       == QMul(QMul(baseRight, ratio), lsm)
        width       == QMul(QMul(rawWidth, ratio), lsm)
        start       == IF mode = "grid" THEN SnapToGrid(cursor) ELSE cursor
        glyphStart  == QAdd(start, left)
        collision   == Collides(glyphStart, st.prevEnd)
        endOfBox    == QAdd(glyphStart, width)
        finalAdvance == IF mode = "grid" THEN SnapToGrid(advance) ELSE advance
    IN  [ cursor  |-> QAdd(start, finalAdvance),
          prevEnd |-> QMax(st.prevEnd, endOfBox),
          last    |-> char,
          layout  |-> Append(st.layout,
                        [ char |-> char, advance |-> finalAdvance, left |-> left,
                          right |-> right, width |-> width, start |-> start,
                          collision |-> collision ]) ]

RECURSIVE LayoutLoop(_, _, _, _, _, _, _, _)
LayoutLoop(st, text, i, gl, kp, mode, lsm, trk) ==
    IF i > Len(text) THEN st.layout
    ELSE LayoutLoop(LayoutStep(st, text[i], i - 1, gl, kp, mode, lsm, trk),
                    text, i + 1, gl, kp, mode, lsm, trk)

\* the useMemo body: the layout of a text
Layout(text, gl, kp, mode, lsm, trk) ==
    LayoutLoop([ cursor |-> QI(0), prevEnd |-> QI(0), last |-> "", layout |-> << >> ],
               text, 1, gl, kp, mode, lsm, trk)

----------------------------------------------------------------------------
(* Path Transformer: transformPath of GlyphMetrics                         *)
(*                                                                         *)
(* A path is the sequence of its commands; a command is a record with a    *)
(* type and the coordinate fields that type carries:                       *)
(*   M, L : x y      Q : x1 y1 x y      C : x1 y1 x2 y2 x y      Z : none  *)

MaxCmds == 2        \* longest outline handed to transformPath on its own

MoveTo(x, y) == [ type |-> "M", x |-> QI(x), y |-> QI(y) ]
LineTo(x, y) == [ type |-> "L", x |-> QI(x), y |-> QI(y) ]
QuadTo(x1, y1, x, y) ==
    [ type |-> "Q", x1 |-> QI(x1), y1 |-> QI(y1), x |-> QI(x), y |-> QI(y) ]
CurveTo(x1, y1, x2, y2, x, y) ==
    [ type |-> "C", x1 |-> QI(x1), y1 |-> QI(y1), x2 |-> QI(x2), y2 |-> QI(y2),
      x |-> QI(x), y |-> QI(y) ]
ClosePath == [ type |-> "Z" ]

\* Math.cos and Math.sin of a whole number of quarter turns, the angles the
\* model rotates by; the exact values, which the doubles of the program
\* match within 2^-52
CosDeg(r) == CASE r = 0 -> QI(1)
               [] r = 90 -> QI(0)
               [] r = -90 -> QI(0)
               [] r = 180 -> QI(-1)
               [] r = -180 -> QI(-1)
SinDeg(r) == CASE r = 0 -> QI(0)
               [] r = 90 -> QI(1)
               [] r = -90 -> QI(-1)
               [] r = 180 -> QI(0)
               [] r = -180 -> QI(0)

\* style.includes("Bold"), style.includes("Italic")
IncludesBold(style)   == style \in { "Bold", "BoldItalic" }
IncludesItalic(style) == style \in { "Italic", "BoldItalic" }

\* a plausible slip: the Bold factor applied to every style
styleScaleAlways(style) == Q(112, 100)

\* styleScale: 1.12 for a Bold style
styleScale(style) == IF IncludesBold(style) THEN Q(112, 100) ELSE QI(1)

\* italicShear: Math.tan(12 degrees) = 0.2125... for an Italic style, held
\* as 17/80
italicShear(style) == IF IncludesItalic(style) THEN Q(17, 80) ELSE QI(0)

\* a plausible slip: the sign of the second row of the rotation lost
applyPointMirrored(x, y, glyph, style) ==
    LET sx == QMul(glyph.scale, styleScale(style))
        sy == QMul(glyph.scale, styleScale(style))
        nx0 == QMul(x, sx)
        ny == QMul(y, sy)
        nx == IF italicShear(style).n # 0
                THEN QAdd(nx0, QMul(ny, italicShear(style))) ELSE nx0
        cos == CosDeg(glyph.rotate)
        sin == SinDeg(glyph.rotate)
        rx == QSub(QMul(nx, cos), QMul(ny, sin))
        ry == QSub(QMul(nx, sin), QMul(ny, cos))
    IN  [ x |-> QAdd(rx, glyph.x), y |-> QAdd(ry, glyph.y) ]

\* a plausible slip: the shear taken from the unscaled y
applyPointRawShear(x, y, glyph, style) ==
    LET sx == QMul(glyph.scale, styleScale(style))
        sy == QMul(glyph.scale, styleScale(style))
        nx0 == QMul(x, sx)
        ny == QMul(y, sy)
        nx == IF italicShear(style).n # 0
                THEN QAdd(nx0, QMul(y, italicShear(style))) ELSE nx0
        cos == CosDeg(glyph.rotate)
        sin == SinDeg(glyph.rotate)
        rx == QSub(QMul(nx, cos), QMul(ny, sin))
        ry == QAdd(QMul(nx, sin), QMul(ny, cos))
    IN  [ x |-> QAdd(rx, glyph.x), y |-> QAdd(ry, glyph.y) ]

\* applyPoint: scale, shear, rotate, translate
applyPoint(x, y, glyph, style) ==
    LET sx == QMul(glyph.scale, styleScale(style))
        sy == QMul(glyph.scale, styleScale(style))
        nx0 == QMul(x, sx)
        ny == QMul(y, sy)
        nx == IF italicShear(style).n # 0
                THEN QAdd(nx0, QMul(ny, italicShear(style))) ELSE nx0
        cos == CosDeg(glyph.rotate)
        sin == SinDeg(glyph.rotate)
        rx == QSub(QMul(nx, cos), QMul(ny, sin))
        ry == QAdd(QMul(nx, sin), QMul(ny, cos))
    IN  [ x |-> QAdd(rx, glyph.x), y |-> QAdd(ry, glyph.y) ]

\* a plausible slip: only the end point of a command remapped
TransformCommandEndPoint(cmd, glyph, style) ==
    LET has(f, g) == f \in DOMAIN cmd /\ g \in DOMAIN cmd
        p  == applyPoint(cmd.x, cmd.y, glyph, style)
    IN  [ f \in DOMAIN cmd |->
            CASE f = "x"  /\ has("x", "y")   -> p.x
              [] f = "y"  /\ has("x", "y")   -> p.y
              [] OTHER -> cmd[f] ]

\* the body of path.commands.forEach: a copy of the command with each
\* coordinate pair it carries remapped
TransformCommand(cmd, glyph, style) ==
    LET has(f, g) == f \in DOMAIN cmd /\ g \in DOMAIN cmd
        p  == applyPoint(cmd.x, cmd.y, glyph, style)
        p1 == applyPoint(cmd.x1, cmd.y1, glyph, style)
        p2 == applyPoint(cmd.x2, cmd.y2, glyph, style)
    IN  [ f \in DOMAIN cmd |->
            CASE f = "x"  /\ has("x", "y")   -> p.x
              [] f = "y"  /\ has("x", "y")   -> p.y
              [] f = "x1" /\ has("x1", "y1") -> p1.x
              [] f = "y1" /\ has("x1", "y1") -> p1.y
              [] f = "x2" /\ has("x2", "y2") -> p2.x
              [] f = "y2" /\ has("x2", "y2") -> p2.y
              [] OTHER -> cmd[f] ]

transformPath(path, glyph, style) ==
    [ i \in 1..Len(path) |-> TransformCommand(path[i], glyph, style) ]

----------------------------------------------------------------------------
(* Outline extraction: extractPathData and buildPathFromData               *)
(*                                                                         *)
(* A d attribute is a sequence of path-data commands [op, args]:           *)
(*   M x y, L x y, H x, V y (absolute), h dx, v dy (relative),             *)
(*   Q x1 y1 x y, C x1 y1 x2 y2 x y, Z                                     *)

Cmd(op, args) == [ op |-> op, args |-> args ]

\* a rectangle as wide as the canvas and as high as it is wide
RectDataSquare(width, height) ==
    << Cmd("M", << 0, 0 >>), Cmd("H", << width >>), Cmd("V", << width >>),
       Cmd("H", << 0 >>), Cmd("Z", << >>) >>

\* `M0 0 H${width} V${height} H0 Z`
RectData(width, height) ==
    << Cmd("M", << 0, 0 >>), Cmd("H", << width >>), Cmd("V", << height >>),
       Cmd("H", << 0 >>), Cmd("Z", << >>) >>

\* a || b || c on numbers
FirstTruthy(a, b, c) == IF a # 0 THEN a ELSE IF b # 0 THEN b ELSE c

\* extractPathData: the non-empty d attributes of the document's paths, or
\* a rectangle of the document's declared size when it has an svg element
\* and no path data
extractPathData(svg) ==
    LET ds == SelectSeq(svg.paths, LAMBDA d : d # << >>)
    IN  IF ds = << >> /\ svg.svgEl
          THEN << RectData(FirstTruthy(svg.width, svg.vbWidth, 100),
                           FirstTruthy(svg.height, svg.vbHeight, 100)) >>
          ELSE ds

\* opentype.Path.fromSVG: the commands of a d attribute as absolute path
\* commands; cur is the current point, start the start of the subpath
RECURSIVE FromSVGLoop(_, _, _, _, _)
FromSVGLoop(d, i, cur, start, acc) ==
    IF i > Len(d) THEN acc
    ELSE LET c == d[i]
             a == c.args
         IN  CASE c.op = "M" ->
                    FromSVGLoop(d, i + 1, << a[1], a[2] >>, << a[1], a[2] >>,
                                Append(acc, MoveTo(a[1], a[2])))
               [] c.op = "L" ->
                    FromSVGLoop(d, i + 1, << a[1], a[2] >>, start,
                                Append(acc, LineTo(a[1], a[2])))
               [] c.op = "H" ->
                    FromSVGLoop(d, i + 1, << a[1], cur[2] >>, start,
                                Append(acc, LineTo(a[1], cur[2])))
               [] c.op = "V" ->
                    FromSVGLoop(d, i + 1, << cur[1], a[1] >>, start,
                                Append(acc, LineTo(cur[1], a[1])))
               [] c.op = "h" ->
                    FromSVGLoop(d, i + 1, << cur[1] + a[1], cur[2] >>, start,
                                Append(acc, LineTo(cur[1] + a[1], cur[2])))
               [] c.op = "v" ->
                    FromSVGLoop(d, i + 1, << cur[1], cur[2] + a[1] >>, start,
                                Append(acc, LineTo(cur[1], cur[2] + a[1])))
               [] c.op = "Q" ->
                    FromSVGLoop(d, i + 1, << a[3], a[4] >>, start,
                                Append(acc, QuadTo(a[1], a[2], a[3], a[4])))
               [] c.op = "C" ->
                    FromSVGLoop(d, i + 1, << a[5], a[6] >>, start,
                                Append(acc, CurveTo(a[1], a[2], a[3], a[4], a[5], a[6])))
               [] c.op = "Z" ->
                    FromSVGLoop(d, i + 1, start, start, Append(acc, ClosePath))

PathFromSVG(d) == FromSVGLoop(d, 1, << 0, 0 >>, << 0, 0 >>, << >>)

\* buildPathFromData: the commands of every d attribute, in order
RECURSIVE buildPathFromData(_)
buildPathFromData(ds) ==
    IF ds = << >> THEN << >>
    ELSE PathFromSVG(Head(ds)) \o buildPathFromData(Tail(ds))

----------------------------------------------------------------------------
(* Font Assembler: glyphToOpenType and exportFont of FontMaker.tsx *)

\* char.codePointAt(0)
CodePoint(char) == CASE char = "A" -> 65 [] char = "V" -> 86

\* a plausible slip: a glyph emitted for a character without artwork too
glyphToOpenTypeAlways(char, glyph, style) ==
    Some([ name |-> char, unicode |-> CodePoint(char),
           advanceWidth |-> OrElse(glyph.advance, QI(600)),
           path |-> transformPath(buildPathFromData(extractPathData(glyph.svg)),
                                  glyph, style) ])

\* glyphToOpenType: null for a glyph without artwork
glyphToOpenType(char, glyph, style) ==
    IF Falsy(glyph.svg) THEN None
    ELSE LET ds          == extractPathData(glyph.svg)
             basePath    == buildPathFromData(ds)
             transformed == transformPath(basePath, glyph, style)
             advanceWidth == OrElse(glyph.advance, QI(600))
         IN  Some([ name |-> char, unicode |-> CodePoint(char),
                    advanceWidth |-> advanceWidth, path |-> transformed ])

\* the required placeholder glyph
NotdefGlyph ==
    [ name |-> ".notdef", unicode |-> 0, advanceWidth |-> QI(650), path |-> << >> ]

\* GLYPHS.forEach: the glyph of every character that has one, in order
RECURSIVE CollectGlyphs(_, _, _)
CollectGlyphs(i, gl, style) ==
    IF i > Len(GLYPHS) THEN << >>
    ELSE glyphToOpenType(GLYPHS[i], gl[GLYPHS[i]], style)
            \o CollectGlyphs(i + 1, gl, style)

\* a font whose descender is the metadata value as it is
BuildFontRawDescender(gl, md, style) ==
    [ familyName |-> md.fontName,
      styleName  |-> style,
      unitsPerEm |-> md.unitsPerEm,
      ascender   |-> md.ascender,
      descender  |-> md.descender,
      glyphs     |-> << NotdefGlyph >> \o CollectGlyphs(1, gl, style),
      kerningPairs |-> [ pr \in {} |-> 0 ] ]

\* the opentype.Font that exportFont builds
BuildFont(gl, md, style) ==
    [ familyName |-> md.fontName,
      styleName  |-> style,
      unitsPerEm |-> md.unitsPerEm,
      ascender   |-> md.ascender,
      descender  |-> -Abs(md.descender),
      glyphs     |-> << NotdefGlyph >> \o CollectGlyphs(1, gl, style),
      \* the pair-kerning entries of the document, keyed by << left, right >>:
      \* the block that would add them is commented out
      kerningPairs |-> [ pr \in {} |-> 0 ] ]

----------------------------------------------------------------------------
(* Values of the components that a specification leaves alone *)

IdentityTransform ==
    [ svg |-> NullSvg, scale |-> QI(1), rotate |-> 0, x |-> QI(0), y |-> QI(0) ]

NoImage == [ width |-> 0, height |-> 0, data |-> << >> ]

DEFAULT_GUIDES ==
    [ baseline |-> 820, capHeight |-> 260, xHeight |-> 440, ascender |-> 180,
      descender |-> 1120, meanline |-> 520, centerline |-> 600,
      emTop |-> 120, emBottom |-> 1220 ]

\* the initial FontMetadata, derived from the guides
DefaultMetadata ==
    [ fontName |-> "MyFont", styleName |-> "Regular",
      unitsPerEm |-> DEFAULT_GUIDES.emBottom - DEFAULT_GUIDES.emTop,
      ascender |-> DEFAULT_GUIDES.baseline - DEFAULT_GUIDES.emTop,
      descender |-> DEFAULT_GUIDES.emBottom - DEFAULT_GUIDES.baseline,
      padding |-> 50 ]

ExportIdle    == /\ guides = DEFAULT_GUIDES /\ metadata = DefaultMetadata
                 /\ font = None /\ status = ""
TransformIdle == /\ tPath = << >> /\ tGlyph = IdentityTransform /\ tStyle = "Regular"
                 /\ tOut = None /\ tOut2 = None
TraceIdle     == /\ image = NoImage /\ ty = 0 /\ tx = 0 /\ pathParts = << >>
                 /\ tpc = "idle" /\ traced = None

\* no item in localStorage
NoSaved == [ kind |-> "none" ]

LoadIdle      == /\ saved = NoSaved /\ mounted = TRUE
                 /\ letterSpacing = QI(1) /\ FontMaker_tracking = 0
BoxIdle       == bbox = None
SpacingIdle   == calls = 0
UploadIdle    == selectedGlyph = GLYPHS[1] /\ inflight = {} /\ bulk = None

----------------------------------------------------------------------------
(* The preview: FontMaker state edited by its handlers, laid out by        *)
(* SpacingDebugger on every change of its props.  The preview text and the *)
(* two scalar props are inputs drawn at the start.                         *)

Relayout == entries' = Layout(previewText', glyphs', kerningPairs', previewMode',
                              letterSpacingMultiplier', tracking')

InitLayout ==
    /\ glyphs = createDefaultGlyphs
    /\ kerningPairs = EmptyKerning
    /\ previewText \in Texts
    /\ previewMode = "typeset"
    /\ \E sc \in LayoutScalars : letterSpacingMultiplier = sc[1] /\ tracking = sc[2]
    /\ entries = Layout(previewText, glyphs, kerningPairs, previewMode,
                        letterSpacingMultiplier, tracking)
    /\ ExportIdle /\ TransformIdle /\ TraceIdle /\ LoadIdle /\ BoxIdle
    /\ SpacingIdle /\ UploadIdle

\* FontMaker's own kerningKey, under which setKerningPair files an entry
FontMaker_kerningKey(left, right) == left \o "_" \o right

\* FontMaker.setKerningPair, with kerningLeft, kerningRight, kerningValue
setKerningPair(l, r, v) ==
    LET key == FontMaker_kerningKey(l, r) IN
    /\ key \in DOMAIN kerningPairs \/ Cardinality(DOMAIN kerningPairs) < MaxKern
    /\ kerningPairs' = [ k \in DOMAIN kerningPairs \cup { key } |->
                           IF k = key THEN v ELSE kerningPairs[k] ]
    /\ UNCHANGED << glyphs, previewText, previewMode, letterSpacingMultiplier, tracking >>
    /\ Relayout
    /\ UNCHANGED << exportVars, transformVars, traceVars, loadVars, boxVars, spacingVars, uploadVars >>

\* updateGlyph(patch) on the glyph c selected in the editor
updateGlyph(c, patch) ==
    glyphs' = [ glyphs EXCEPT ![c] =
                  [ f \in DOMAIN glyphs[c] |->
                      IF f \in DOMAIN patch THEN patch[f] ELSE glyphs[c][f] ] ]

\* the advance slider
SetAdvance(c, v) ==
    /\ updateGlyph(c, [ advance |-> QI(v) ])
    /\ UNCHANGED << kerningPairs, previewText, previewMode, letterSpacingMultiplier, tracking >>
    /\ Relayout
    /\ UNCHANGED << exportVars, transformVars, traceVars, loadVars, boxVars, spacingVars, uploadVars >>

\* the left bearing slider
SetLeftBearing(c, v) ==
    /\ updateGlyph(c, [ leftBearing |-> QI(v) ])
    /\ UNCHANGED << kerningPairs, previewText, previewMode, letterSpacingMultiplier, tracking >>
    /\ Relayout
    /\ UNCHANGED << exportVars, transformVars, traceVars, loadVars, boxVars, spacingVars, uploadVars >>

\* the preview mode select
setPreviewMode(m) ==
    /\ previewMode' = m
    /\ UNCHANGED << glyphs, kerningPairs, previewText, letterSpacingMultiplier, tracking >>
    /\ Relayout
    /\ UNCHANGED << exportVars, transformVars, traceVars, loadVars, boxVars, spacingVars, uploadVars >>

NextLayout ==
    \/ \E l \in GlyphSet, r \in GlyphSet, v \in KernValues : setKerningPair(l, r, v)
    \/ \E c \in GlyphSet, v \in AdvanceValues : SetAdvance(c, v)
    \/ \E c \in GlyphSet, v \in BearingValues : SetLeftBearing(c, v)
    \/ \E m \in Modes : setPreviewMode(m)

SpecLayout == InitLayout /\ [][NextLayout]_vars

----------------------------------------------------------------------------
(* Typesetting Engine: the claims *)

\* the layout of the same props with an empty KerningTable
PlainLayout == Layout(previewText, glyphs, EmptyKerning, previewMode,
                      letterSpacingMultiplier, tracking)

\* the maximum advance among the GlyphRecords of the table
IsMaxAdvance(m) ==
    /\ \E c \in DOMAIN glyphs : glyphs[c].advance = m
    /\ \A c \in DOMAIN glyphs : QLe(glyphs[c].advance, m)

AllKnown == \A i \in 1..Len(previewText) : previewText[i] \in DOMAIN glyphs

\* the KerningTable's entry for the ordered pair (l, r), as the editor files it
PairKey(l, r) == l \o "_" \o r
HasPair(l, r) == PairKey(l, r) \in DOMAIN kerningPairs
PairValue(l, r) == kerningPairs[PairKey(l, r)]

LeftInkEdge(e)  == QAdd(e.start, e.left)
RightInkEdge(e) == QAdd(QAdd(e.start, e.left), e.width)

\* C1: for a two-character text c1 c2, in every mode, when the table has no
\* entry for the ordered pair (c1,c2) the second entry starts where it starts
\* with an empty table, whatever the table holds for (c2,c1); and with
\* (A,V) = -80 the V of "AV" starts exactly 80 units left of that place.
C1_KerningLookup ==
    Len(previewText) = 2 =>
        /\ ~HasPair(previewText[1], previewText[2])
              => entries[2].start = PlainLayout[2].start
        /\ ( /\ previewText = << "A", "V" >>
             /\ HasPair("A", "V")
             /\ PairValue("A", "V") = -80 )
              => entries[2].start = QSub(PlainLayout[2].start, QI(80))

\* C1 witness: "AV" laid out in grid mode with (A,V) = -80 in the table
C1_Witness ==
    /\ previewText = << "A", "V" >>
    /\ previewMode = "grid"
    /\ HasPair("A", "V") /\ PairValue("A", "V") = -80
    /\ Len(entries) = 2
    /\ entries[2].start = QSub(PlainLayout[2].start, QI(80))

\* C2 as stated: in monospace mode every entry's advance is the maximum
\* advance of the table, whatever the multiplier and the tracking.
C2_MonospaceAsStated ==
    (previewMode = "monospace" /\ AllKnown) =>
        \A i \in 1..Len(entries) : IsMaxAdvance(entries[i].advance)

\* C2 amended: in monospace mode every entry's advance is the maximum advance
\* of the table times the multiplier plus the tracking offset, hence the
\* maximum advance itself when the multiplier is 1 and the tracking 0.
C2_MonospaceUniform ==
    (previewMode = "monospace" /\ AllKnown) =>
        \A i \in 1..Len(entries) :
            /\ \E m \in { glyphs[c].advance : c \in DOMAIN glyphs } :
                 /\ IsMaxAdvance(m)
                 /\ entries[i].advance =
                        QAdd(QMul(m, letterSpacingMultiplier), QI(tracking))
            /\ (letterSpacingMultiplier = QI(1) /\ tracking = 0)
                  => IsMaxAdvance(entries[i].advance)

\* C2 witness: two glyphs of different advance set in monospace mode with
\* the multiplier 1.5 and the tracking 30
C2_Witness ==
    /\ previewMode = "monospace"
    /\ previewText = << "A", "V" >>
    /\ glyphs["A"].advance = QI(600) /\ glyphs["V"].advance = QI(700)
    /\ letterSpacingMultiplier = Q(3, 2) /\ tracking = 30
    /\ entries[1].advance = QI(1080) /\ entries[2].advance = QI(1080)

C4_Case ==
    /\ previewMode = "typeset"
    /\ letterSpacingMultiplier = QI(1) /\ tracking = 0
    /\ Len(previewText) = 2
    /\ previewText[1] \in DOMAIN glyphs /\ previewText[2] \in DOMAIN glyphs
    /\ glyphs[previewText[1]].advance = QI(600)
    /\ glyphs[previewText[1]].leftBearing = QI(0)
    /\ glyphs[previewText[1]].rightBearing = QI(100)
    /\ HasPair(previewText[1], previewText[2])
    /\ PairValue(previewText[1], previewText[2]) < -100

----------------------------------------------------------------------------
(* transformPath applied to an outline, and once more to its own result *)

CommandPool ==
    { MoveTo(0, 0), LineTo(10, 0), LineTo(-3, 7), QuadTo(5, 10, 10, 0),
      CurveTo(2, 4, 6, -8, 16, 0), ClosePath }

Outlines == UNION { [1..k -> CommandPool] : k \in 0..MaxCmds }

\* values of the scale, rotate, x and y sliders
ScaleValues  == { QI(1), Q(1, 2) }
RotateValues == { 0, 90, 180, -90 }
OffsetValues == { QI(0), QI(5) }

Transforms ==
    { [ svg |-> NullSvg, scale |-> sc, rotate |-> r, x |-> ox, y |-> oy ] :
        sc \in ScaleValues, r \in RotateValues, ox \in OffsetValues, oy \in OffsetValues }

InitTransform ==
    /\ tPath \in Outlines
    /\ tGlyph \in Transforms
    /\ tStyle \in Styles
    /\ tOut = None /\ tOut2 = None
    /\ glyphs = createDefaultGlyphs /\ kerningPairs = EmptyKerning
    /\ previewText = << >> /\ previewMode = "typeset"
    /\ letterSpacingMultiplier = QI(1) /\ tracking = 0 /\ entries = << >>
    /\ ExportIdle /\ TraceIdle /\ LoadIdle /\ BoxIdle
    /\ SpacingIdle /\ UploadIdle

\* transformPath(tPath, tGlyph, tStyle)
TransformOnce ==
    /\ tOut = None
    /\ tOut' = Some(transformPath(tPath, tGlyph, tStyle))
    /\ UNCHANGED << tPath, tGlyph, tStyle, tOut2 >>
    /\ UNCHANGED << layoutVars, exportVars, traceVars, loadVars, boxVars, spacingVars, uploadVars >>

\* transformPath(result, tGlyph, tStyle), on the result of the first call
TransformAgain ==
    /\ tOut # None /\ tOut2 = None
    /\ tOut2' = Some(transformPath(tOut[1], tGlyph, tStyle))
    /\ UNCHANGED << tPath, tGlyph, tStyle, tOut >>
    /\ UNCHANGED << layoutVars, exportVars, traceVars, loadVars, boxVars, spacingVars, uploadVars >>

NextTransform == TransformOnce \/ TransformAgain

SpecTransform == InitTransform /\ [][NextTransform]_vars

IsIdentity(g) == g.scale = QI(1) /\ g.rotate = 0 /\ g.x = QI(0) /\ g.y = QI(0)

\* C8: transformPath with scale 1, rotate 0, translate (0,0) and style
\* Regular returns the same commands in the same order, every coordinate
\* field of every command unchanged.
C8_TransformIdentity ==
    (tOut # None /\ IsIdentity(tGlyph) /\ tStyle = "Regular") => tOut[1] = tPath

\* C8 witness: the identity transform applied to a curve followed by a line
C8_Witness ==
    /\ tOut # None /\ IsIdentity(tGlyph) /\ tStyle = "Regular"
    /\ tPath = << CurveTo(2, 4, 6, -8, 16, 0), LineTo(-3, 7) >>
    /\ tOut[1] = tPath

QuarterTurn(g) == g.scale = QI(1) /\ g.rotate = 90 /\ g.x = QI(0) /\ g.y = QI(0)

\* C9: transformPath applied twice with rotate = 90 (scale 1, translate
\* (0,0), style Regular) gives the coordinates of one application with
\* rotate = 180.
C9_TransformComposes ==
    (tOut2 # None /\ QuarterTurn(tGlyph) /\ tStyle = "Regular") =>
        tOut2[1] = transformPath(tPath, [ tGlyph EXCEPT !.rotate = 180 ], "Regular")

\* C9 witness: two quarter turns of a curve, which end at the negated points
C9_Witness ==
    /\ tOut2 # None /\ QuarterTurn(tGlyph) /\ tStyle = "Regular"
    /\ tPath = << MoveTo(0, 0), CurveTo(2, 4, 6, -8, 16, 0) >>
    /\ tOut[1][2].x = QI(0) /\ tOut[1][2].y = QI(16)
    /\ tOut2[1][2] = CurveTo(-2, -4, -6, 8, -16, 0)

----------------------------------------------------------------------------
(* Export: a session's glyph table, exported in one style after another *)

DocTriangle ==
    [ kind |-> "doc", svgEl |-> TRUE, width |-> 0, height |-> 0,
      vbWidth |-> 20, vbHeight |-> 20,
      paths |-> << << Cmd("M", << 0, 0 >>), Cmd("L", << 10, 0 >>),
                      Cmd("L", << 10, 20 >>), Cmd("Z", << >>) >> >> ]
DocCurve ==
    [ kind |-> "doc", svgEl |-> TRUE, width |-> 24, height |-> 24,
      vbWidth |-> 0, vbHeight |-> 0,
      paths |-> << << Cmd("M", << 0, 4 >>), Cmd("Q", << 5, 10, 10, 4 >>) >>,
                   << Cmd("C", << 12, 4, 14, -8, 16, 2 >>), Cmd("Z", << >>) >> >> ]
DocNoPath ==
    [ kind |-> "doc", svgEl |-> TRUE, width |-> 0, height |-> 0,
      vbWidth |-> 30, vbHeight |-> 40, paths |-> << >> ]
\* a non-empty string that is not an svg document: the parser yields a
\* document without svg element and without paths
DocMalformed ==
    [ kind |-> "doc", svgEl |-> FALSE, width |-> 0, height |-> 0,
      vbWidth |-> 0, vbHeight |-> 0, paths |-> << >> ]

SvgValues == { NullSvg, EmptySvg, DocTriangle, DocCurve, DocNoPath, DocMalformed }

ExportAdvances == { QI(600), QI(100) }

KerningTables == { EmptyKerning, [ k \in { FontMaker_kerningKey("A", "V") } |-> -80 ] }

GlyphInputs ==
    { [ svg |-> sv, scale |-> sc, rotate |-> r, x |-> ox, y |-> oy,
        advance |-> adv, leftBearing |-> QI(100), rightBearing |-> QI(100) ] :
        sv \in SvgValues, sc \in ScaleValues, r \in { 0, 90 },
        ox \in OffsetValues, oy \in OffsetValues, adv \in ExportAdvances }

\* the second glyph is untouched or has the triangle uploaded
SecondGlyphInputs ==
    { [ createDefaultGlyphs["V"] EXCEPT !.svg = sv ] : sv \in { NullSvg, DocTriangle } }

InitExport ==
    /\ glyphs \in { gl \in [ GlyphSet -> GlyphInputs \cup SecondGlyphInputs ] :
                      gl["V"] \in SecondGlyphInputs }
    /\ kerningPairs \in KerningTables
    /\ previewText = << >> /\ previewMode = "typeset"
    /\ letterSpacingMultiplier = QI(1) /\ tracking = 0 /\ entries = << >>
    /\ ExportIdle /\ TransformIdle /\ TraceIdle /\ LoadIdle /\ BoxIdle
    /\ SpacingIdle /\ UploadIdle

\* an export that also writes the style into the metadata
exportFontRenaming(style, ok) ==
    /\ font' = Some(BuildFont(glyphs, metadata, style))
    /\ status' = "Exported " \o metadata.fontName \o "-" \o style \o ".otf"
    /\ metadata' = [ metadata EXCEPT !.styleName = style ]
    /\ UNCHANGED << guides, layoutVars, transformVars, traceVars, loadVars, boxVars, spacingVars, uploadVars >>

\* exportFont(style): the font is built from the glyph table and handed to
\* the download; ok tells whether serialising and downloading it succeeded,
\* and when it did not the catch block reports the failure
exportFont(style, ok) ==
    /\ IF ok
         THEN /\ font' = Some(BuildFont(glyphs, metadata, style))
              /\ status' = "Exported " \o metadata.fontName \o "-" \o style \o ".otf"
         ELSE /\ font' = font
              /\ status' = "Export failed: error"
    /\ UNCHANGED << guides, metadata, layoutVars, transformVars, traceVars, loadVars, boxVars, spacingVars, uploadVars >>

NextExport == \E style \in Styles, ok \in BOOLEAN : exportFont(style, ok)

SpecExport == InitExport /\ [][NextExport]_vars

----------------------------------------------------------------------------
(* Font Assembler: the claims *)

\* the characters whose GlyphRecord carries an outline (an svg that is
\* neither null nor the empty string)
WithArtwork == { c \in GlyphSet : ~Falsy(glyphs[c].svg) }

GlyphNames(doc) == [ i \in 1..Len(doc.glyphs) |-> doc.glyphs[i].name ]

\* C5: the glyph list of the exported font is the placeholder glyph followed
\* by one glyph per character that has an outline: no character with an
\* outline is missing and no other repertoire character has an entry.
C5_ExportCompleteness ==
    font # None =>
        LET names == GlyphNames(font[1]) IN
        /\ Len(names) = 1 + Cardinality(WithArtwork)
        /\ names[1] = ".notdef"
        /\ \A i \in 2..Len(names) : names[i] \in WithArtwork
        /\ \A c \in WithArtwork : \E i \in 2..Len(names) : names[i] = c

\* C5 witness: only "A" has artwork and the exported font holds the
\* placeholder and "A"
C5_Witness ==
    /\ font # None
    /\ ~Falsy(glyphs["A"].svg) /\ glyphs["V"].svg = NullSvg
    /\ GlyphNames(font[1]) = << ".notdef", "A" >>

\* the font exportFont builds for a style from the present glyph table
FontOf(style) == BuildFont(glyphs, metadata, style)

\* C6: every glyph's advanceWidth in the Bold export is its advanceWidth in
\* the Regular export times 1.08.
C6_BoldAdvance ==
    (font # None /\ font[1].styleName = "Bold") =>
        \A i \in 2..Len(font[1].glyphs) :
            font[1].glyphs[i].advanceWidth =
                QMul(FontOf("Regular").glyphs[i].advanceWidth, Q(108, 100))

\* the coordinate pairs of a command, as << x field, y field >>
PairsOf(cmd) ==
    { pr \in { << "x", "y" >>, << "x1", "y1" >>, << "x2", "y2" >> } :
        pr[1] \in DOMAIN cmd /\ pr[2] \in DOMAIN cmd }

\* the point of the Italic command is the point of the Regular command
\* sheared by tan(12 degrees) times the Regular y
ShearedFrom(italic, regular) ==
    /\ Len(italic) = Len(regular)
    /\ \A j \in 1..Len(italic) :
         /\ italic[j].type = regular[j].type
         /\ \A pr \in PairsOf(regular[j]) :
              /\ italic[j][pr[2]] = regular[j][pr[2]]
              /\ italic[j][pr[1]] =
                    QAdd(regular[j][pr[1]], QMul(Q(17, 80), regular[j][pr[2]]))

\* C7 as stated: for every glyph, whatever its scale, rotation and
\* translation, the Italic export is the Regular export sheared by
\* tan(12 degrees) times y.
C7_ItalicShearAsStated ==
    (font # None /\ font[1].styleName = "Italic") =>
        \A i \in 2..Len(font[1].glyphs) :
            ShearedFrom(font[1].glyphs[i].path, FontOf("Regular").glyphs[i].path)

\* C7 amended: for every glyph with rotate = 0 and no vertical translation
\* (any scale, any horizontal translation) the Italic export is the Regular
\* export sheared by tan(12 degrees) times y.
C7_ItalicShear ==
    (font # None /\ font[1].styleName = "Italic") =>
        \A i \in 2..Len(font[1].glyphs) :
            LET g == glyphs[font[1].glyphs[i].name] IN
            (g.rotate = 0 /\ g.y = QI(0)) =>
                ShearedFrom(font[1].glyphs[i].path, FontOf("Regular").glyphs[i].path)

\* C7 witness: a scaled, horizontally moved curve exported in Italic
C7_Witness ==
    /\ font # None /\ font[1].styleName = "Italic"
    /\ glyphs["A"].svg = DocCurve
    /\ glyphs["A"].rotate = 0 /\ glyphs["A"].y = QI(0)
    /\ glyphs["A"].scale = Q(1, 2) /\ glyphs["A"].x = QI(5)
    /\ font[1].glyphs[2].name = "A"
    /\ font[1].glyphs[2].path # FontOf("Regular").glyphs[2].path
    /\ ShearedFrom(font[1].glyphs[2].path, FontOf("Regular").glyphs[2].path)

----------------------------------------------------------------------------
(* Bounding-Box Evaluator: computeBoundingBox of the geometry module *)

\* the whole-number square root of n by bisection of lo..hi
RECURSIVE ISqrtLoop(_, _, _)
ISqrtLoop(n, lo, hi) ==
    IF lo >= hi THEN lo
    ELSE CHOOSE r \in { IF mid * mid <= n THEN ISqrtLoop(n, mid, hi)
                                          ELSE ISqrtLoop(n, lo, mid - 1) :
                        mid \in { (lo + hi + 1) \div 2 } } : TRUE

ISqrt(n) == CHOOSE r \in { ISqrtLoop(n, 0, IF n < 46340 THEN n ELSE 46340) } :
                r * r = n

\* Math.sqrt of a number that is the square of a rational
MathSqrt(a) == CHOOSE r \in { Q(ISqrt(v.n), ISqrt(v.d)) : v \in { a } } : TRUE

\* BoundingBox.addPoint, addX and addY of opentype.js; the empty box is None
addX(box, x) == [ box EXCEPT !.x1 = QMin(@, x), !.x2 = QMax(@, x) ]
addY(box, y) == [ box EXCEPT !.y1 = QMin(@, y), !.y2 = QMax(@, y) ]
addPoint(box, x, y) ==
    IF box = None
      THEN Some([ x1 |-> x, y1 |-> y, x2 |-> x, y2 |-> y ])
      ELSE Some(addY(addX(box[1], x), y))

\* the point of a cubic Bezier at parameter t, one coordinate
derive(v0, v1, v2, v3, t) ==
    LET At(u) ==
            QAdd(QAdd(QMul(QMul(QMul(u, u), u), v0),
                      QMul(QMul(QI(3), QMul(QMul(u, u), t)), v1)),
                 QAdd(QMul(QMul(QI(3), QMul(QMul(u, t), t)), v2),
                      QMul(QMul(QMul(t, t), t), v3)))
    IN  At(QSub(QI(1), t))

\* the parameters in (0, 1) at which one coordinate of the cubic has an
\* extremum: the roots of a*t^2 + b*t + c
Extrema(p0, p1, p2, p3) ==
    LET Inside(t) == QLt(QI(0), t) /\ QLt(t, QI(1))
        Roots(a, b, b2ac) ==
            IF QLt(b2ac, QI(0)) THEN {}
            ELSE { t \in { QDiv(QAdd(QNeg(b), MathSqrt(b2ac)), QMul(QI(2), a)),
                           QDiv(QSub(QNeg(b), MathSqrt(b2ac)), QMul(QI(2), a)) } :
                   Inside(t) }
        Solve(a, b, c) ==
            IF a = QI(0)
              THEN IF b = QI(0) THEN {}
                   ELSE { t \in { QDiv(QNeg(c), b) } : Inside(t) }
              ELSE Roots(a, b, QSub(QMul(b, b), QMul(QI(4), QMul(c, a))))
    IN  Solve(QAdd(QAdd(QMul(QI(-3), p0), QMul(QI(9), p1)),
                   QAdd(QMul(QI(-9), p2), QMul(QI(3), p3))),
              QAdd(QSub(QMul(QI(6), p0), QMul(QI(12), p1)), QMul(QI(6), p2)),
              QSub(QMul(QI(3), p1), QMul(QI(3), p0)))

\* addX or addY for every value of a set
RECURSIVE AddAll(_, _, _)
AddAll(box, vals, isX) ==
    IF vals = {} THEN box
    ELSE LET v == CHOOSE w \in vals : TRUE IN
         AddAll(IF isX THEN addX(box, v) ELSE addY(box, v), vals \ { v }, isX)

\* BoundingBox.addBezier: the end points and the extrema of the curve
addBezier(box, x0, y0, x1, y1, x2, y2, x, y) ==
    LET ends == addPoint(addPoint(box, x0, y0), x, y)[1]
        xs   == { derive(x0, x1, x2, x, t) : t \in Extrema(x0, x1, x2, x) }
        ys   == { derive(y0, y1, y2, y, t) : t \in Extrema(y0, y1, y2, y) }
    IN  Some(AddAll(AddAll(ends, xs, TRUE), ys, FALSE))

\* BoundingBox.addQuad: the quadratic curve as a cubic
addQuad(box, x0, y0, x1, y1, x, y) ==
    LET cp1x == QAdd(x0, QMul(Q(2, 3), QSub(x1, x0)))
        cp1y == QAdd(y0, QMul(Q(2, 3), QSub(y1, y0)))
        cp2x == QAdd(cp1x, QMul(Q(1, 3), QSub(x, x0)))
        cp2y == QAdd(cp1y, QMul(Q(1, 3), QSub(y, y0)))
    IN  addBezier(box, x0, y0, cp1x, cp1y, cp2x, cp2y, x, y)

\* the loop of opentype.Path.getBoundingBox; prev is the current point and
\* start the start of the subpath
RECURSIVE BoxLoop(_, _, _, _, _)
BoxLoop(path, i, box, start, prev) ==
    IF i > Len(path) THEN box
    ELSE LET cmd == path[i] IN
         CASE cmd.type = "M" ->
                BoxLoop(path, i + 1, addPoint(box, cmd.x, cmd.y),
                        << cmd.x, cmd.y >>, << cmd.x, cmd.y >>)
           [] cmd.type = "L" ->
                BoxLoop(path, i + 1, addPoint(box, cmd.x, cmd.y),
                        start, << cmd.x, cmd.y >>)
           [] cmd.type = "Q" ->
                BoxLoop(path, i + 1,
                        addQuad(box, prev[1], prev[2], cmd.x1, cmd.y1, cmd.x, cmd.y),
                        start, << cmd.x, cmd.y >>)
           [] cmd.type = "C" ->
                BoxLoop(path, i + 1,
                        addBezier(box, prev[1], prev[2], cmd.x1, cmd.y1,
                                  cmd.x2, cmd.y2, cmd.x, cmd.y),
                        start, << cmd.x, cmd.y >>)
           [] cmd.type = "Z" -> BoxLoop(path, i + 1, box, start, start)

\* opentype.Path.getBoundingBox: a box that is still empty after the loop
\* becomes the point (0, 0)
getBoundingBox(path) ==
    LET NonEmpty(box) == IF box = None THEN addPoint(box, QI(0), QI(0))[1] ELSE box[1]
    IN  NonEmpty(BoxLoop(path, 1, None, << QI(0), QI(0) >>, << QI(0), QI(0) >>))

\* computeBoundingBox: the box of the outline under the glyph's transform in
\* style Regular; nothing in the try block throws, so the result is never
\* the null of the catch block
computeBoundingBox(svg, glyph) ==
    LET ds          == extractPathData(svg)
        basePath    == buildPathFromData(ds)
        transformed == transformPath(basePath, glyph, "Regular")
        Result(box) ==
            Some([ xMin |-> box.x1, xMax |-> box.x2, yMin |-> box.y1, yMax |-> box.y2,
                   width |-> QSub(box.x2, box.x1), height |-> QSub(box.y2, box.y1) ])
    IN  Result(getBoundingBox(transformed))

----------------------------------------------------------------------------
(* Raster Tracer: the run-length scan of tracePNGtoSVG (GlyphAutoTrace.ts), *)
(* one action per iteration of its loops.  Of the RGBA bytes of the image   *)
(* the scan reads the alpha byte only.                                      *)

MaxW == 3
MaxH == 2

threshold == 10

\* data[(y * width + x) * 4 + 3]
AlphaAt(img, x, y) == img.data[(y * img.width + x) + 1]

\* a run that ends at its first pixel
RunEndPixel(img, runEnd, y) == runEnd

\* the inner while: the last pixel of the run of ink that starts at runEnd
RECURSIVE RunEnd(_, _, _)
RunEnd(img, runEnd, y) ==
    IF runEnd + 1 < img.width /\ AlphaAt(img, runEnd + 1, y) > threshold
      THEN RunEnd(img, runEnd + 1, y)
      ELSE runEnd

\* a plausible slip: the rectangle drawn two units down
RunPartTall(runStart, y, runWidth) ==
    << Cmd("M", << runStart, y >>), Cmd("h", << runWidth >>), Cmd("v", << 2 >>),
       Cmd("h", << -runWidth >>), Cmd("Z", << >>) >>

\* `M${runStart} ${y}h${runWidth}v1h-${runWidth}Z`
RunPart(runStart, y, runWidth) ==
    << Cmd("M", << runStart, y >>), Cmd("h", << runWidth >>), Cmd("v", << 1 >>),
       Cmd("h", << -runWidth >>), Cmd("Z", << >>) >>

\* pathParts.join(" ")
RECURSIVE Join(_)
Join(parts) == IF parts = << >> THEN << >> ELSE Head(parts) \o Join(Tail(parts))

\* the returned document: viewBox 0 0 width height, one path element
TracedDocument(width, height, parts) ==
    [ kind |-> "doc", svgEl |-> TRUE, width |-> 0, height |-> 0,
      vbWidth |-> width, vbHeight |-> height, paths |-> << Join(parts) >> ]

AlphaValues == { 10, 255 }

Images ==
    UNION { [ width : { w }, height : { h }, data : [ 1..(w * h) -> AlphaValues ] ] :
            w \in 1..MaxW, h \in 1..MaxH }

InitTrace ==
    /\ image \in Images
    /\ ty = 0 /\ tx = 0 /\ pathParts = << >> /\ tpc = "scan" /\ traced = None
    /\ glyphs = createDefaultGlyphs /\ kerningPairs = EmptyKerning
    /\ previewText = << >> /\ previewMode = "typeset"
    /\ letterSpacingMultiplier = QI(1) /\ tracking = 0 /\ entries = << >>
    /\ ExportIdle /\ TransformIdle /\ LoadIdle /\ BoxIdle
    /\ SpacingIdle /\ UploadIdle

\* alpha > threshold: the run is emitted and x moves past it
TraceRun ==
    /\ tpc = "scan" /\ ty < image.height /\ tx < image.width
    /\ AlphaAt(image, tx, ty) > threshold
    /\ LET runStart == tx
           runEnd   == RunEnd(image, tx, ty)
           runWidth == runEnd - runStart + 1
       IN  /\ pathParts' = Append(pathParts, RunPart(runStart, ty, runWidth))
           /\ tx' = runEnd + 1
    /\ UNCHANGED << image, ty, tpc, traced >>
    /\ UNCHANGED << layoutVars, exportVars, transformVars, loadVars, boxVars, spacingVars, uploadVars >>

\* else: x++
TraceSkip ==
    /\ tpc = "scan" /\ ty < image.height /\ tx < image.width
    /\ ~(AlphaAt(image, tx, ty) > threshold)
    /\ tx' = tx + 1
    /\ UNCHANGED << image, ty, pathParts, tpc, traced >>
    /\ UNCHANGED << layoutVars, exportVars, transformVars, loadVars, boxVars, spacingVars, uploadVars >>

\* the end of a row: y++ and x = 0
TraceNextRow ==
    /\ tpc = "scan" /\ ty < image.height /\ ~(tx < image.width)
    /\ ty' = ty + 1 /\ tx' = 0
    /\ UNCHANGED << image, pathParts, tpc, traced >>
    /\ UNCHANGED << layoutVars, exportVars, transformVars, loadVars, boxVars, spacingVars, uploadVars >>

\* after the last row: the fallback rectangle when nothing was emitted, and
\* the document is returned
TraceReturn ==
    /\ tpc = "scan" /\ ~(ty < image.height)
    /\ LET parts == IF Len(pathParts) = 0
                      THEN << RectData(image.width, image.height) >>
                      ELSE pathParts
       IN  /\ pathParts' = parts
           /\ traced' = Some(TracedDocument(image.width, image.height, parts))
    /\ tpc' = "done"
    /\ UNCHANGED << image, ty, tx >>
    /\ UNCHANGED << layoutVars, exportVars, transformVars, loadVars, boxVars, spacingVars, uploadVars >>

NextTrace == TraceRun \/ TraceSkip \/ TraceNextRow \/ TraceReturn

SpecTrace == InitTrace /\ [][NextTrace]_vars

----------------------------------------------------------------------------
(* Raster Tracer: the claims *)

AllOpaque(img) == \A k \in 1..Len(img.data) : img.data[k] = 255

\* C10: when every pixel of a W x H image is opaque, the finished trace holds
\* exactly H runs, the run of row y being the rectangle from x = 0 to x = W
\* of that row, and the bounding box of the traced outline is (0,0)-(W,H).
C10_TracerMonotonicity ==
    (tpc = "done" /\ AllOpaque(image)) =>
        /\ Len(pathParts) = image.height
        /\ \A r \in 1..Len(pathParts) :
              pathParts[r] = RunPart(0, r - 1, image.width)
        /\ LET box == computeBoundingBox(traced[1], IdentityTransform)[1] IN
           /\ box.xMin = QI(0) /\ box.yMin = QI(0)
           /\ box.xMax = QI(image.width) /\ box.yMax = QI(image.height)

\* C10 witness: a finished trace of an opaque image two rows high and more
\* than one pixel wide
C10_Witness ==
    /\ tpc = "done" /\ AllOpaque(image)
    /\ image.width > 1 /\ image.height = 2
    /\ Len(pathParts) = 2

\* no pixel is classified as ink
NoInk(img) == \A k \in 1..Len(img.data) : ~(img.data[k] > threshold)

\* the outline downstream code builds from a traced document
OutlineOf(svg) == buildPathFromData(extractPathData(svg))

\* the rectangle (0,0)-(width,height) as an outline
CanvasRectangle(width, height) ==
    << MoveTo(0, 0), LineTo(width, 0), LineTo(width, height), LineTo(0, height),
       ClosePath >>

\* C11: when no pixel of the image is ink, the finished trace holds one path
\* part and the outline built from the returned document is non-empty and is
\* the single rectangle (0,0)-(width,height) of the source image.
C11_TracerFallback ==
    (tpc = "done" /\ NoInk(image)) =>
        /\ Len(pathParts) = 1
        /\ OutlineOf(traced[1]) # << >>
        /\ OutlineOf(traced[1]) = CanvasRectangle(image.width, image.height)
        /\ LET box == computeBoundingBox(traced[1], IdentityTransform)[1] IN
           /\ box.xMin = QI(0) /\ box.yMin = QI(0)
           /\ box.width = QI(image.width) /\ box.height = QI(image.height)

\* C11 witness: a finished trace of an image without ink, wider than high
C11_Witness ==
    /\ tpc = "done" /\ NoInk(image)
    /\ image.width = 3 /\ image.height = 2
    /\ traced # None /\ Len(traced[1].paths[1]) = 5

----------------------------------------------------------------------------
(* Font Assembler: kerning, failures, frame *)

\* C12: for every entry (left, right) -> value of the kerning table the
\* exported font carries a pair-kerning entry for (left, right) with that
\* value.
C12_KerningExported ==
    font # None =>
        \A l \in GlyphSet, r \in GlyphSet :
            HasPair(l, r) =>
                /\ << l, r >> \in DOMAIN font[1].kerningPairs
                /\ font[1].kerningPairs[<< l, r >>] = PairValue(l, r)

\* the status line of a completed export
ExportedStatus(style) == "Exported " \o metadata.fontName \o "-" \o style \o ".otf"

\* C13: when the outline of some character is malformed, no font document
\* is produced and no 'Exported' status is reported (the export is aborted
\* with a message naming the character).
C13_ExportAbortsOnMalformed ==
    (\E c \in GlyphSet : glyphs[c].svg = DocMalformed) =>
        /\ font = None
        /\ \A style \in Styles : status # ExportedStatus(style)

\* C14: no export, successful or failed, changes a GlyphRecord, the kerning
\* table, the guides or the metadata, and the document an export produces
\* is the one built from that snapshot and the style alone, whatever was
\* exported before.
C14_ExportReadOnly ==
    [][ /\ UNCHANGED << glyphs, kerningPairs, guides, metadata >>
        /\ font' # font =>
             /\ font' # None
             /\ font'[1] = BuildFont(glyphs, metadata, font'[1].styleName) ]_vars

\* C14 witness: an Italic export followed by a failed export, with artwork
\* and a kerning entry in the session
C14_Witness ==
    /\ font # None /\ font[1].styleName = "Italic"
    /\ status = "Export failed: error"
    /\ ~Falsy(glyphs["A"].svg) /\ HasPair("A", "V")
    /\ glyphs["A"].svg = DocCurve /\ glyphs["A"].rotate = 90

----------------------------------------------------------------------------
(* Font Assembler: the width of an exported glyph *)

\* C15: every glyph of a Regular export has advanceWidth = leftBearing +
\* max(boundingBoxWidth, advance - leftBearing - rightBearing) + rightBearing,
\* boundingBoxWidth being the width of the transformed outline.
C15_WidthFromGeometry ==
    (font # None /\ font[1].styleName = "Regular") =>
        \A i \in 2..Len(font[1].glyphs) :
            LET g == glyphs[font[1].glyphs[i].name]
                boundingBoxWidth == computeBoundingBox(g.svg, g)[1].width
                glyphWidth ==
                    QMax(boundingBoxWidth,
                         QSub(QSub(g.advance, g.leftBearing), g.rightBearing))
            IN  font[1].glyphs[i].advanceWidth =
                    QAdd(QAdd(g.leftBearing, glyphWidth), g.rightBearing)

----------------------------------------------------------------------------
(* Vertical metrics: the guides, the metadata derived from them, the      *)
(* metadata form and the export.  The effect that follows a change of the *)
(* guides is part of the action that changes them.                        *)

\* a metadata record whose derived fields are replaced, whatever the guides
deriveMetadataReset(prev, g) ==
    [ DefaultMetadata EXCEPT !.unitsPerEm = g.emBottom - g.emTop,
                             !.ascender   = g.baseline - g.emTop,
                             !.descender  = g.emBottom - g.baseline ]

\* the effect on [guides]: setMetadata(prev => ({ ...prev, unitsPerEm,
\* ascender, descender }))
deriveMetadata(prev, g) ==
    [ prev EXCEPT !.unitsPerEm = g.emBottom - g.emTop,
                  !.ascender   = g.baseline - g.emTop,
                  !.descender  = g.emBottom - g.baseline ]

\* the guide sliders moved in the model, with the values they are moved to
GuideEdits ==
    { << "emTop", 120 >>, << "emTop", 900 >>,
      << "emBottom", 1220 >>, << "emBottom", 700 >>,
      << "baseline", 820 >>, << "baseline", 1200 >> }

\* the contents of the metadata form when 'update' is pressed
FormValues ==
    [ fontName : { "MyFont", "Display" }, styleName : { "Regular" },
      unitsPerEm : { 1000 }, ascender : { 800 }, descender : { -200, 300 },
      padding : { 10 } ]

\* the glyph table of this specification: "A" carries the triangle
MetricsGlyphs ==
    [ createDefaultGlyphs EXCEPT !["A"].svg = DocTriangle ]

InitMetrics ==
    /\ glyphs = MetricsGlyphs /\ kerningPairs = EmptyKerning
    /\ previewText = << >> /\ previewMode = "typeset"
    /\ letterSpacingMultiplier = QI(1) /\ tracking = 0 /\ entries = << >>
    /\ guides = DEFAULT_GUIDES
    /\ metadata = deriveMetadata(DefaultMetadata, DEFAULT_GUIDES)
    /\ font = None /\ status = ""
    /\ TransformIdle /\ TraceIdle /\ LoadIdle /\ BoxIdle
    /\ SpacingIdle /\ UploadIdle

\* a guide slider: setGuides(prev => ({ ...prev, ...patch })), then the effect
GuideControls_onChange(field, v) ==
    /\ guides[field] # v
    /\ guides' = [ guides EXCEPT ![field] = v ]
    /\ metadata' = deriveMetadata(metadata, guides')
    /\ UNCHANGED << font, status, layoutVars, transformVars, traceVars, loadVars, boxVars, spacingVars, uploadVars >>

\* FontMetadataForm.emit: onChange = setMetadata replaces the metadata
FontMetadataForm_emit(meta) ==
    /\ metadata' = meta
    /\ UNCHANGED << guides, font, status, layoutVars, transformVars, traceVars, loadVars, boxVars, spacingVars, uploadVars >>

NextMetrics ==
    \/ \E ed \in GuideEdits : GuideControls_onChange(ed[1], ed[2])
    \/ \E meta \in FormValues : FontMetadataForm_emit(meta)
    \/ \E style \in Styles, ok \in BOOLEAN : exportFont(style, ok)

SpecMetrics == InitMetrics /\ [][NextMetrics]_vars

\* C16: a step that changes the guides leaves the metadata with unitsPerEm =
\* emBottom - emTop, ascender = baseline - emTop and descender = emBottom -
\* baseline of the new guides and with its former fontName, styleName and
\* padding; a step that leaves the guides alone changes the metadata only by
\* a direct override from the form.
C16_MetadataFollowsGuides ==
    [][ /\ guides' # guides =>
             /\ metadata'.unitsPerEm = guides'.emBottom - guides'.emTop
             /\ metadata'.ascender   = guides'.baseline - guides'.emTop
             /\ metadata'.descender  = guides'.emBottom - guides'.baseline
             /\ metadata'.fontName   = metadata.fontName
             /\ metadata'.styleName  = metadata.styleName
             /\ metadata'.padding    = metadata.padding
        /\ (guides' = guides /\ metadata' # metadata) => metadata' \in FormValues
      ]_vars

\* C16 witness: after a direct override and then a move of the em top, the
\* metadata carries the name and padding of the override and the metrics of
\* the guides
C16_Witness ==
    /\ guides.emTop = 900 /\ guides.emBottom = 1220 /\ guides.baseline = 820
    /\ metadata.fontName = "Display" /\ metadata.padding = 10
    /\ metadata.unitsPerEm = 320 /\ metadata.ascender = -80
    /\ metadata.descender = 400

\* C17: every font produced by an export has descender = -|metadata.descender|
\* and ascender and unitsPerEm equal to the metadata values of the moment of
\* the export; the descender of a produced font is never positive.
C17_ExportedMetrics ==
    /\ [](font # None => font[1].descender <= 0)
    /\ [][ font' # font =>
             /\ font'[1].descender  = -Abs(metadata.descender)
             /\ font'[1].ascender   = metadata.ascender
             /\ font'[1].unitsPerEm = metadata.unitsPerEm ]_vars

\* C17 witness: the baseline guide lies below the em bottom, the derived
\* descender is negative, and the exported font carries it unchanged; the
\* em top lies below the em bottom guide as well
C17_Witness ==
    /\ guides.baseline = 1200 /\ guides.emBottom = 700 /\ guides.emTop = 900
    /\ metadata.descender = -500
    /\ font # None /\ font[1].descender = -500
    /\ font[1].unitsPerEm = -200 /\ font[1].ascender = 300

\* C17 witness of the other sign is the state where a direct override made
\* the descender positive
PositiveDescenderExported ==
    /\ metadata.descender = 300 /\ font # None /\ font[1].descender = -300

----------------------------------------------------------------------------
(* Persisted state: loadState and the construction of FontMaker from it,   *)
(* with the effects that run on mount.  A persisted record is modelled by  *)
(* its top-level fields, each missing (None) or present.                   *)

\* a || b for an optional object
OptOr(o, dflt) == IF o = None THEN dflt ELSE o[1]

\* a || b for an optional number
OptNumOr(o, dflt) == IF o = None THEN dflt ELSE OrElse(o[1], dflt)

\* loadState: null when there is no item or it cannot be parsed
loadState(sv) ==
    IF sv.kind = "record"
      THEN Some([ glyphs        |-> OptOr(sv.glyphs, createDefaultGlyphs),
                  metadata      |-> sv.metadata,
                  kerningPairs  |-> OptOr(sv.kerningPairs, EmptyKerning),
                  guides        |-> OptOr(sv.guides, DEFAULT_GUIDES),
                  letterSpacing |-> OptNumOr(sv.letterSpacing, QI(1)),
                  tracking      |-> IF sv.tracking = None THEN 0 ELSE sv.tracking[1] ])
      ELSE None

\* JSON.stringify({ metadata, kerningPairs, guides, letterSpacing, tracking })
Persist(md, kp, g, ls, trk) ==
    [ kind |-> "record", glyphs |-> None, metadata |-> Some(md),
      kerningPairs |-> Some(kp), guides |-> Some(g),
      letterSpacing |-> Some(ls), tracking |-> Some(trk) ]

\* a persisted GlyphRecord without its advance field
GlyphWithoutAdvance ==
    [ svg |-> NullSvg, scale |-> QI(1), rotate |-> 0, x |-> QI(0), y |-> QI(0),
      leftBearing |-> QI(100), rightBearing |-> QI(100) ]

SavedGlyphs ==
    { [ createDefaultGlyphs EXCEPT !["A"].advance = QI(700) ],
      [ c \in GlyphSet |-> IF c = "A" THEN GlyphWithoutAdvance
                                      ELSE createDefaultGlyphs[c] ] }

SavedMetadata ==
    [ fontName |-> "Display", styleName |-> "Regular", unitsPerEm |-> 1000,
      ascender |-> 800, descender |-> -200, padding |-> 10 ]

SavedGuides == [ DEFAULT_GUIDES EXCEPT !.emTop = 100, !.baseline = 800 ]

Optional(S) == { None } \cup { Some(v) : v \in S }

SavedValues ==
    { NoSaved, [ kind |-> "unparsable" ] } \cup
    [ kind : { "record" }, glyphs : Optional(SavedGlyphs),
      metadata : Optional({ SavedMetadata }),
      kerningPairs : Optional({ [ k \in { "A_V" } |-> -80 ] }),
      guides : Optional({ SavedGuides }),
      letterSpacing : Optional({ Q(3, 2) }), tracking : Optional({ 30 }) ]

InitLoad ==
    /\ saved \in SavedValues /\ mounted = FALSE
    /\ letterSpacing = QI(1) /\ FontMaker_tracking = 0
    /\ glyphs = createDefaultGlyphs /\ kerningPairs = EmptyKerning
    /\ previewText = << >> /\ previewMode = "typeset"
    /\ letterSpacingMultiplier = QI(1) /\ tracking = 0 /\ entries = << >>
    /\ ExportIdle /\ TransformIdle /\ TraceIdle /\ BoxIdle
    /\ SpacingIdle /\ UploadIdle

\* the first render of FontMaker and the effects that follow it
FontMaker_mount ==
    /\ ~mounted
    /\ LET initialState == loadState(saved)
           g  == IF initialState = None THEN DEFAULT_GUIDES ELSE initialState[1].guides
           md == IF initialState = None \/ initialState[1].metadata = None
                   THEN [ fontName |-> "MyFont", styleName |-> "Regular",
                          unitsPerEm |-> g.emBottom - g.emTop,
                          ascender |-> g.baseline - g.emTop,
                          descender |-> g.emBottom - g.baseline,
                          padding |-> 50 ]
                   ELSE initialState[1].metadata[1]
       IN  /\ glyphs' = IF initialState = None THEN createDefaultGlyphs
                                               ELSE initialState[1].glyphs
           /\ guides' = g
           /\ kerningPairs' = IF initialState = None THEN EmptyKerning
                                                     ELSE initialState[1].kerningPairs
           /\ letterSpacing' = IF initialState = None THEN QI(1)
                               ELSE OrElse(initialState[1].letterSpacing, QI(1))
           /\ FontMaker_tracking' = IF initialState = None THEN 0
                                    ELSE initialState[1].tracking
           /\ metadata' = deriveMetadata(md, g)
    /\ status' = ""
    /\ saved' = Persist(metadata', kerningPairs', guides', letterSpacing',
                        FontMaker_tracking')
    /\ mounted' = TRUE
    /\ UNCHANGED << font, previewText, previewMode, letterSpacingMultiplier,
                    tracking, entries, transformVars, traceVars, boxVars, spacingVars, uploadVars >>

\* the page is reloaded: the session is gone and the item stays
Reload ==
    /\ mounted
    /\ mounted' = FALSE
    /\ UNCHANGED << saved, letterSpacing, FontMaker_tracking, layoutVars, exportVars,
                    transformVars, traceVars, boxVars, spacingVars, uploadVars >>

NextLoad == FontMaker_mount \/ Reload

SpecLoad == InitLoad /\ [][NextLoad]_vars

\* the fields of a GlyphRecord with their documented defaults
GlyphDefaults == createDefaultGlyphs["A"]

\* the value the session must hold for an optional persisted value
Restored(o, dflt) == IF o = None THEN dflt ELSE o[1]

\* C18: constructing the session from any persisted item gives every missing
\* field its default and every present field its persisted value: the glyph
\* table glyph by glyph and field by field, the guides, the metadata, the
\* kerning table, the multiplier and the tracking.
C18_TolerantLoad ==
    [][ (~mounted /\ mounted') =>
          LET rec == saved.kind = "record"
              pg  == IF rec THEN Restored(saved.glyphs, createDefaultGlyphs)
                            ELSE createDefaultGlyphs
          IN  /\ \A c \in GlyphSet : \A f \in DOMAIN GlyphDefaults :
                    /\ f \in DOMAIN glyphs'[c]
                    /\ glyphs'[c][f] = IF f \in DOMAIN pg[c] THEN pg[c][f]
                                                             ELSE GlyphDefaults[f]
              /\ guides' = IF rec THEN Restored(saved.guides, DEFAULT_GUIDES)
                                  ELSE DEFAULT_GUIDES
              /\ (rec /\ saved.metadata # None) => metadata' = saved.metadata[1]
              /\ kerningPairs' = IF rec THEN Restored(saved.kerningPairs, EmptyKerning)
                                        ELSE EmptyKerning
              /\ letterSpacing' = IF rec THEN Restored(saved.letterSpacing, QI(1))
                                         ELSE QI(1)
              /\ FontMaker_tracking' = IF rec THEN Restored(saved.tracking, 0) ELSE 0
      ]_vars

----------------------------------------------------------------------------
(* Font import: handleOTFImport.  A font file either fails to parse or is *)
(* a document with a character map, a glyph list whose first glyph is     *)
(* .notdef, unitsPerEm and an optional family name.                       *)

\* CmapEncoding.charToGlyphIndex of opentype.js: glyph 0 for a character the
\* font does not map
charToGlyphIndex(f, char) == IF char \in DOMAIN f.cmap THEN f.cmap[char] ELSE 0

\* font.glyphs.get(index)
GlyphAt(f, index) == f.glyphs[index + 1]

\* Path.toPathData on whole-number coordinates: one d command per command
toPathData(path) ==
    [ i \in 1..Len(path) |->
        LET cmd == path[i] IN
        CASE cmd.type = "M" -> Cmd("M", << cmd.x.n, cmd.y.n >>)
          [] cmd.type = "L" -> Cmd("L", << cmd.x.n, cmd.y.n >>)
          [] cmd.type = "Q" -> Cmd("Q", << cmd.x1.n, cmd.y1.n, cmd.x.n, cmd.y.n >>)
          [] cmd.type = "C" -> Cmd("C", << cmd.x1.n, cmd.y1.n, cmd.x2.n, cmd.y2.n,
                                          cmd.x.n, cmd.y.n >>)
          [] cmd.type = "Z" -> Cmd("Z", << >>) ]

\* the svg document written around the path data of an imported glyph
ImportedSvg(pathData) ==
    [ kind |-> "doc", svgEl |-> TRUE, width |-> 1000, height |-> 1000,
      vbWidth |-> 1000, vbHeight |-> 1000, paths |-> << pathData >> ]

\* the GlyphData of an imported glyph
ImportedGlyph(glyph) ==
    [ svg |-> ImportedSvg(toPathData(glyph.path)),
      scale |-> QI(1), rotate |-> 0, x |-> QI(0), y |-> QI(0),
      advance |-> OrElse(glyph.advanceWidth, QI(600)),
      leftBearing |-> QI(100), rightBearing |-> QI(100) ]

\* the characters the GLYPHS.forEach loop imports a glyph for
ImportedChars(f) ==
    { c \in GlyphSet : toPathData(GlyphAt(f, charToGlyphIndex(f, c)).path) # << >> }

\* number of glyphs in the status line
CountText(n) == CASE n = 0 -> "0" [] n = 1 -> "1" [] n = 2 -> "2"

BoxOutline == << MoveTo(0, 0), LineTo(500, 0), LineTo(500, 700), LineTo(0, 700), ClosePath >>
WedgeOutline == << MoveTo(0, 0), LineTo(300, 700), LineTo(600, 0), ClosePath >>

FontGlyph(name, advanceWidth, path) ==
    [ name |-> name, advanceWidth |-> QI(advanceWidth), path |-> path ]

\* the fonts offered for import: .notdef with or without an outline, "A"
\* unmapped, mapped to an outline or mapped to an empty glyph, "V" unmapped
\* or mapped to an outline, with or without a family name
FontFiles ==
    { [ kind |-> "unparsable" ] } \cup
    { [ kind |-> "font",
        cmap |-> [ c \in { ch \in GlyphSet : (ch = "A" /\ a # "none") \/ (ch = "V" /\ v) }
                     |-> IF c = "A" THEN 1 ELSE IF a # "none" THEN 2 ELSE 1 ],
        glyphs |-> << FontGlyph(".notdef", 500, nd) >>
                   \o (IF a = "none" THEN << >>
                       ELSE << FontGlyph("A", 640, IF a = "outline" THEN WedgeOutline
                                                                      ELSE << >>) >>)
                   \o (IF v THEN << FontGlyph("V", 720, WedgeOutline) >> ELSE << >>),
        unitsPerEm |-> 1000,
        fontFamily |-> fam ] :
      nd \in { << >>, BoxOutline }, a \in { "none", "outline", "empty" },
      v \in BOOLEAN, fam \in { None, Some("Imported"), Some("Grotesk") } }

InitImport ==
    /\ glyphs \in { [ createDefaultGlyphs EXCEPT !["A"] = a, !["V"] = v ] :
                      a \in { createDefaultGlyphs["A"],
                              [ createDefaultGlyphs["A"] EXCEPT !.svg = DocCurve,
                                                               !.scale = Q(1, 2) ] },
                      v \in { createDefaultGlyphs["V"],
                              [ createDefaultGlyphs["V"] EXCEPT !.svg = DocTriangle,
                                                               !.advance = QI(700) ] } }
    /\ kerningPairs = EmptyKerning
    /\ previewText = << >> /\ previewMode = "typeset"
    /\ letterSpacingMultiplier = QI(1) /\ tracking = 0 /\ entries = << >>
    /\ ExportIdle /\ TransformIdle /\ TraceIdle /\ LoadIdle /\ BoxIdle
    /\ SpacingIdle /\ UploadIdle

\* handleOTFImport(file)
handleOTFImport(file) ==
    /\ IF file.kind = "unparsable"
         THEN /\ status' = "Import failed: error"
              /\ UNCHANGED << glyphs, metadata >>
         ELSE LET chars == ImportedChars(file) IN
              /\ glyphs' = [ c \in GlyphSet |->
                               IF c \in chars
                                 THEN ImportedGlyph(GlyphAt(file, charToGlyphIndex(file, c)))
                                 ELSE glyphs[c] ]
              /\ status' = "Imported " \o CountText(Cardinality(chars))
                              \o " glyphs from font!"
              /\ metadata' = IF file.fontFamily # None
                               THEN [ metadata EXCEPT !.fontName = file.fontFamily[1] ]
                               ELSE metadata
    /\ UNCHANGED << guides, font, kerningPairs, previewText, previewMode,
                    letterSpacingMultiplier, tracking, entries,
                    transformVars, traceVars, loadVars, boxVars, spacingVars, uploadVars >>

NextImport == \E file \in FontFiles : handleOTFImport(file)

SpecImport == InitImport /\ [][NextImport]_vars

\* C19: after the import of a font, every character the font maps to a glyph
\* with a non-empty outline has the record made from that glyph (its outline,
\* its advance width, bearings 100/100, the identity transform), and every
\* other character has the record it had before the import.
C19_ImportSkipsUnmapped ==
    [][ \A file \in FontFiles :
          (file.kind = "font" /\ handleOTFImport(file)) =>
             \A c \in GlyphSet :
                IF c \in DOMAIN file.cmap /\ GlyphAt(file, file.cmap[c]).path # << >>
                  THEN /\ OutlineOf(glyphs'[c].svg) = GlyphAt(file, file.cmap[c]).path
                       /\ glyphs'[c].advance = GlyphAt(file, file.cmap[c]).advanceWidth
                       /\ glyphs'[c].leftBearing = QI(100)
                       /\ glyphs'[c].rightBearing = QI(100)
                       /\ glyphs'[c].scale = QI(1) /\ glyphs'[c].rotate = 0
                       /\ glyphs'[c].x = QI(0) /\ glyphs'[c].y = QI(0)
                  ELSE glyphs'[c] = glyphs[c] ]_vars

----------------------------------------------------------------------------
(* Bounding-Box Evaluator: computeBoundingBox applied to the artwork and   *)
(* transform of a glyph.  bbox holds the result of the call: None before   *)
(* the call, then the returned value, itself None for null.                *)

\* a document whose only path is a close command
DocCloseOnly ==
    [ kind |-> "doc", svgEl |-> TRUE, width |-> 0, height |-> 0,
      vbWidth |-> 20, vbHeight |-> 20, paths |-> << << Cmd("Z", << >>) >> >> ]
\* a document whose only path is a single move
DocPoint ==
    [ kind |-> "doc", svgEl |-> TRUE, width |-> 0, height |-> 0,
      vbWidth |-> 20, vbHeight |-> 20, paths |-> << << Cmd("M", << 5, 7 >>) >> >> ]

BoxInputs ==
    { [ createDefaultGlyphs["A"] EXCEPT !.svg = sv, !.scale = sc, !.rotate = r,
                                        !.x = ox, !.y = oy ] :
        sv \in { DocTriangle, DocCurve, DocNoPath, DocMalformed, DocCloseOnly, DocPoint },
        sc \in ScaleValues, r \in RotateValues,
        ox \in OffsetValues, oy \in OffsetValues }

InitBox ==
    /\ glyphs \in { [ createDefaultGlyphs EXCEPT !["A"] = g ] : g \in BoxInputs }
    /\ kerningPairs = EmptyKerning
    /\ previewText = << >> /\ previewMode = "typeset"
    /\ letterSpacingMultiplier = QI(1) /\ tracking = 0 /\ entries = << >>
    /\ ExportIdle /\ TransformIdle /\ TraceIdle /\ LoadIdle /\ BoxIdle
    /\ SpacingIdle /\ UploadIdle

\* computeBoundingBox(glyph.svg, glyph) for the glyph "A"
ComputeBox ==
    /\ bbox = None
    /\ bbox' = Some(computeBoundingBox(glyphs["A"].svg, glyphs["A"]))
    /\ UNCHANGED << layoutVars, exportVars, transformVars, traceVars, loadVars,
                    spacingVars, uploadVars >>

NextBox == ComputeBox

SpecBox == InitBox /\ [][NextBox]_vars

\* no command of the outline carries a coordinate
NoCoordinates(path) == \A i \in 1..Len(path) : path[i].type = "Z"

\* C20: computeBoundingBox returns null for an outline without
\* coordinate-bearing commands; for every other outline it returns a box
\* with xMin <= xMax, yMin <= yMax, width >= 0 and height >= 0, and with
\* width = height = 0 for an outline of a single point.
C20_BoxResults ==
    bbox # None =>
        LET path   == OutlineOf(glyphs["A"].svg)
            result == bbox[1]
        IN  IF NoCoordinates(path)
              THEN result = None
              ELSE /\ result # None
                   /\ QLe(result[1].xMin, result[1].xMax)
                   /\ QLe(result[1].yMin, result[1].yMax)
                   /\ QLe(QI(0), result[1].width)
                   /\ QLe(QI(0), result[1].height)
                   /\ Len(path) = 1 =>
                        result[1].width = QI(0) /\ result[1].height = QI(0)

----------------------------------------------------------------------------
(* Typesetting Engine as a component: SpacingDebugger laid out over props  *)
(* of its own choosing.  The text may hold a character that is not in the  *)
(* glyph table (the space), the table may hold the metrics the editor's    *)
(* sliders and the spacing tools lead to, and the two scalar props take    *)
(* values other than FontMaker's 1 and 0.                                  *)

MaxLine == 3        \* longest text handed to the component

TypesetChars == GlyphSet \cup { " " }
TypesetTexts == UNION { [1..k -> TypesetChars] : k \in 0..MaxLine }

\* advance slider at 100, left bearing slider at 800, right bearing at 0
NarrowWideBearing ==
    [ createDefaultGlyphs EXCEPT !["A"].advance = QI(100),
                                 !["A"].leftBearing = QI(800),
                                 !["A"].rightBearing = QI(0) ]
\* advance slider at 100, then applyTracking(-500)
TrackedBelowZero ==
    [ c \in GlyphSet |->
        [ createDefaultGlyphs[c] EXCEPT
            !.advance = IF c = "A" THEN QI(-400) ELSE QI(100) ] ]
\* advance sliders at 610 and 700
OffGrid ==
    [ createDefaultGlyphs EXCEPT !["A"].advance = QI(610), !["V"].advance = QI(700) ]

TypesetTables == { createDefaultGlyphs, NarrowWideBearing, TrackedBelowZero, OffGrid }

TypesetKernings ==
    { EmptyKerning,
      [ k \in { FontMaker_kerningKey("A", "V") } |-> -90 ],
      [ k \in { FontMaker_kerningKey("A", "V"), FontMaker_kerningKey("V", "A") } |->
          IF k = FontMaker_kerningKey("A", "V") THEN -200 ELSE -85 ] }

TypesetScalars == { << QI(1), 0 >>, << Q(3, 2), 30 >>, << Q(1, 2), -500 >> }

InitTypeset ==
    /\ glyphs \in TypesetTables
    /\ kerningPairs \in TypesetKernings
    /\ previewText \in TypesetTexts
    /\ previewMode = "typeset"
    /\ \E sc \in TypesetScalars : letterSpacingMultiplier = sc[1] /\ tracking = sc[2]
    /\ entries = Layout(previewText, glyphs, kerningPairs, previewMode,
                        letterSpacingMultiplier, tracking)
    /\ ExportIdle /\ TransformIdle /\ TraceIdle /\ LoadIdle /\ BoxIdle
    /\ SpacingIdle /\ UploadIdle

NextTypeset == \E m \in Modes : setPreviewMode(m)

SpecTypeset == InitTypeset /\ [][NextTypeset]_vars

\* the KerningTable's adjustment for the ordered pair (l, r), 0 without entry
KernOf(l, r) == IF HasPair(l, r) THEN QI(PairValue(l, r)) ELSE QI(0)

\* C21: for every second or later entry i, collision_i is true if and only
\* if start_i + left_i < start_(i-1) + left_(i-1) + width_(i-1), the
\* right-inked edge of the entry just before it; earlier entries have no
\* influence.
C21_CollisionPreviousOnly ==
    \A i \in 2..Len(entries) :
        entries[i].collision <=>
            QLt(LeftInkEdge(entries[i]), RightInkEdge(entries[i - 1]))

\* the case that separates the previous entry from the earlier ones: a third
\* entry whose ink starts right of the second entry's ink and inside the
\* first entry's
EarlierInkReaches ==
    /\ Len(entries) = 3
    /\ QLe(RightInkEdge(entries[2]), LeftInkEdge(entries[3]))
    /\ QLt(LeftInkEdge(entries[3]), RightInkEdge(entries[1]))
    /\ entries[3].collision

\* C22: the first entry starts at 0, and in the modes typeset, monospace and
\* bounding every later entry starts at the previous entry's start plus the
\* previous entry's final advance plus the kerning of the pair (0 without
\* entry), also for characters that are not in the glyph table.
C22_CursorChaining ==
    /\ Len(entries) = Len(previewText)
    /\ Len(entries) >= 1 => entries[1].start = QI(0)
    /\ previewMode # "grid" =>
         \A i \in 2..Len(entries) :
            entries[i].start =
                QAdd(QAdd(entries[i - 1].start, entries[i - 1].advance),
                     KernOf(previewText[i - 1], previewText[i]))

\* C22 witness: a kerned pair after a character that is not in the table,
\* laid out in monospace mode
C22_Witness ==
    /\ previewMode = "monospace"
    /\ previewText = << " ", "A", "V" >>
    /\ HasPair("A", "V") /\ PairValue("A", "V") = -90
    /\ glyphs = OffGrid
    /\ letterSpacingMultiplier = QI(1) /\ tracking = 0
    /\ entries[2].start = QI(700)
    /\ entries[3].start = QI(1310)

\* the metrics the layout takes for a character: its GlyphRecord's, or
\* 600 / 80 / 80 for a character without record
BaseMetrics(c) ==
    IF c \in DOMAIN glyphs THEN glyphs[c]
    ELSE [ advance |-> QI(600), leftBearing |-> QI(80), rightBearing |-> QI(80) ]

\* the advance a character is laid out with before multiplier and tracking
EffectiveAdvance(c) ==
    IF previewMode = "monospace"
      THEN CHOOSE m \in { glyphs[g].advance : g \in DOMAIN glyphs } :
               \A g \in DOMAIN glyphs : QLe(glyphs[g].advance, m)
      ELSE BaseMetrics(c).advance

\* C23: every entry's width is max(advance - leftBearing - rightBearing, 120)
\* times effective advance / base advance times the multiplier, and is
\* strictly positive, in every mode and for every table of metrics.
C23_WidthFloor ==
    \A i \in 1..Len(entries) :
        LET m   == BaseMetrics(previewText[i])
            raw == QMax(QSub(QSub(m.advance, m.leftBearing), m.rightBearing), QI(120))
        IN  /\ QLt(QI(0), entries[i].width)
            /\ QMul(entries[i].width, m.advance) =
                   QMul(QMul(raw, EffectiveAdvance(previewText[i])),
                        letterSpacingMultiplier)

\* a whole multiple of the grid unit
OnGrid(v) == v.d = 1 /\ v.n % GRID_SIZE = 0

\* the cursor at which entry i is placed, before any rounding
UnsnappedCursor(i) ==
    IF i = 1 THEN QI(0)
    ELSE QAdd(QAdd(entries[i - 1].start, entries[i - 1].advance),
              KernOf(previewText[i - 1], previewText[i]))

\* the advance of entry i before any rounding
UnsnappedAdvance(i) ==
    QAdd(QMul(EffectiveAdvance(previewText[i]), letterSpacingMultiplier), QI(tracking))

\* m is a multiple of the grid unit that no other multiple is nearer to v
NearestOnGrid(m, v) ==
    /\ OnGrid(m)
    /\ QLe(QAbs(QSub(m, v)), QI(GRID_SIZE \div 2))

\* C24: in grid mode every entry's start is the multiple of 20 nearest to
\* the unsnapped cursor and every entry's final advance the multiple of 20
\* nearest to the unsnapped advance, each rounded on its own; in the three
\* other modes start and advance are the unsnapped values.
C24_GridSnapping ==
    \A i \in 1..Len(entries) :
        IF previewMode = "grid"
          THEN /\ NearestOnGrid(entries[i].start, UnsnappedCursor(i))
               /\ NearestOnGrid(entries[i].advance, UnsnappedAdvance(i))
          ELSE /\ entries[i].start = UnsnappedCursor(i)
               /\ entries[i].advance = UnsnappedAdvance(i)

\* C24 witness: in grid mode an advance of 930 snapped to 940 and a cursor of
\* 850 snapped to 860, and in typeset mode the same advance left at 930
C24_Witness ==
    /\ previewText = << "A", "V" >>
    /\ glyphs = createDefaultGlyphs
    /\ HasPair("A", "V") /\ PairValue("A", "V") = -90
    /\ letterSpacingMultiplier = Q(3, 2) /\ tracking = 30
    /\ previewMode = "grid"
    /\ entries[1].advance = QI(940)
    /\ UnsnappedCursor(2) = QI(850) /\ entries[2].start = QI(860)
    /\ Layout(previewText, glyphs, kerningPairs, "typeset",
              letterSpacingMultiplier, tracking)[1].advance = QI(930)

----------------------------------------------------------------------------
(* Path Transformer: one map for every coordinate pair *)

\* the four maps the transform is composed of, on a point [x, y]
ScaleBy(p, k)  == [ x |-> QMul(p.x, k), y |-> QMul(p.y, k) ]
ShearBy(p, s)  == [ x |-> QAdd(p.x, QMul(p.y, s)), y |-> p.y ]
RotateBy(p, r) ==
    [ x |-> QSub(QMul(p.x, CosDeg(r)), QMul(p.y, SinDeg(r))),
      y |-> QAdd(QMul(p.x, SinDeg(r)), QMul(p.y, CosDeg(r))) ]
TranslateBy(p, dx, dy) == [ x |-> QAdd(p.x, dx), y |-> QAdd(p.y, dy) ]

\* M = translate after rotate after italic-shear after uniform scale
PointMap(p, g, style) ==
    TranslateBy(
        RotateBy(
            ShearBy(ScaleBy(p, QMul(g.scale, IF IncludesBold(style) THEN Q(112, 100)
                                                                    ELSE QI(1))),
                    IF IncludesItalic(style) THEN Q(17, 80) ELSE QI(0)),
            g.rotate),
        g.x, g.y)

\* the coordinate pairs a command may carry, as pairs of field names
PairFields == { << "x", "y" >>, << "x1", "y1" >>, << "x2", "y2" >> }

\* command out is command in with every coordinate pair mapped by M
MappedCommand(out, in, g, style) ==
    /\ DOMAIN out = DOMAIN in
    /\ out.type = in.type
    /\ \A pf \in PairFields :
          pf[1] \in DOMAIN in =>
              [ x |-> out[pf[1]], y |-> out[pf[2]] ] =
                  PointMap([ x |-> in[pf[1]], y |-> in[pf[2]] ], g, style)

UniformlyMapped ==
    tOut # None =>
        /\ Len(tOut[1]) = Len(tPath)
        /\ \A i \in 1..Len(tPath) : MappedCommand(tOut[1][i], tPath[i], tGlyph, tStyle)

\* C25: for every outline, transform and style, transformPath returns an
\* outline with the same number, order and types of commands in which the
\* end point and both control points of every command are the images of the
\* input's under one map M = translate after rotate after italic-shear after
\* uniform scale (times 1.12 for a Bold style); commands without coordinates
\* are copied, an empty outline gives an empty outline, and the input
\* outline is left as it was.
C25_UniformPointMap ==
    /\ []UniformlyMapped
    /\ [][tPath' = tPath]_vars

\* C25 witness: a cubic curve followed by a close command, scaled by 1/2,
\* turned by 90 degrees, moved by (5, 5) and set in BoldItalic
C25_Witness ==
    /\ tOut # None
    /\ tPath = << CurveTo(2, 4, 6, -8, 16, 0), ClosePath >>
    /\ tStyle = "BoldItalic"
    /\ tGlyph.scale = Q(1, 2) /\ tGlyph.rotate = 90
    /\ tGlyph.x = QI(5) /\ tGlyph.y = QI(5)
    /\ tOut[1][2] = ClosePath
    /\ tOut[1][1].x2 # tPath[1].x2
    /\ [ x |-> tOut[1][1].x2, y |-> tOut[1][1].y2 ] =
           PointMap([ x |-> QI(6), y |-> QI(-8) ], tGlyph, tStyle)

----------------------------------------------------------------------------
(* Raster Tracer: the scan as a loop that runs to its end.  The scan is    *)
(* synchronous code without suspension point, so a step that is possible   *)
(* is taken.                                                               *)

SpecTraceLive == InitTrace /\ [][NextTrace]_vars /\ WF_vars(NextTrace)

\* the pixel (x, y) of the image is ink for the scan
Ink(x, y) == AlphaAt(image, x, y) > threshold

\* the path parts the scan emitted: those drawn with relative commands,
\* as opposed to the fallback rectangle
EmittedRuns == { k \in 1..Len(pathParts) : pathParts[k][2].op = "h" }

RunX(k) == pathParts[k][1].args[1]
RunY(k) == pathParts[k][1].args[2]
RunW(k) == pathParts[k][2].args[1]

\* part k is a closed rectangle one unit high: move to (x, y), across by w,
\* down by 1, back by w, close
UnitRectangle(k) ==
    /\ Len(pathParts[k]) = 5
    /\ pathParts[k][1].op = "M"
    /\ pathParts[k][2] = Cmd("h", << RunW(k) >>)
    /\ pathParts[k][3] = Cmd("v", << 1 >>)
    /\ pathParts[k][4] = Cmd("h", << -RunW(k) >>)
    /\ pathParts[k][5] = Cmd("Z", << >>)

Covers(k, x, y) == RunY(k) = y /\ RunX(k) <= x /\ x < RunX(k) + RunW(k)

\* the first pixels of the maximal runs of ink of row y
RunStarts(y) ==
    { x \in 0..(image.width - 1) : Ink(x, y) /\ (x = 0 \/ ~Ink(x - 1, y)) }

RunDecomposition ==
    tpc = "done" =>
        /\ \A k \in EmittedRuns :
              /\ UnitRectangle(k)
              /\ RunW(k) >= 1 /\ RunX(k) >= 0 /\ RunX(k) + RunW(k) <= image.width
              /\ RunY(k) >= 0 /\ RunY(k) < image.height
              /\ RunX(k) = 0 \/ ~Ink(RunX(k) - 1, RunY(k))
              /\ RunX(k) + RunW(k) = image.width \/ ~Ink(RunX(k) + RunW(k), RunY(k))
        /\ \A x \in 0..(image.width - 1), y \in 0..(image.height - 1) :
              Cardinality({ k \in EmittedRuns : Covers(k, x, y) }) =
                  IF Ink(x, y) THEN 1 ELSE 0
        /\ \A y \in 0..(image.height - 1) :
              Cardinality({ k \in EmittedRuns : RunY(k) = y }) =
                  Cardinality(RunStarts(y))

\* C26: for every pixel grid the row scan terminates, and the rectangles it
\* emitted are one unit high, each within one row, pairwise disjoint, cover
\* every ink pixel once and no background pixel, and are maximal runs, so
\* that a row has as many rectangles as it has maximal runs of ink.
C26_RunDecomposition ==
    /\ []RunDecomposition
    /\ <>(tpc = "done")

\* C26 witness: a finished scan of a row ink, background, ink above a row
\* ink, ink, background: three runs
C26_Witness ==
    /\ tpc = "done"
    /\ image.width = 3 /\ image.height = 2
    /\ image.data = << 255, 10, 255, 255, 255, 10 >>
    /\ Cardinality(EmittedRuns) = 3
    /\ RunW(3) = 2

----------------------------------------------------------------------------
(* Raster Tracer: the scan over RGBA grids.  The image carries, next to    *)
(* the alpha byte of each pixel, the average of its red, green and blue    *)
(* bytes (lum), which the scan of GlyphAutoTrace.ts never reads.           *)

RowWidth == 20      \* the pixels of the one-row grids: 1 pixel is 5%

\* the brightness below which the per-pixel variant takes a pixel for ink
brightnessThreshold == 200

\* one row of opaque light pixels, except transparent pixels at the places
\* clear and dark pixels at the places dark (a place in both is a
\* transparent black pixel)
RgbaRow(clear, dark) ==
    [ width  |-> RowWidth, height |-> 1,
      data   |-> [ k \in 1..RowWidth |-> IF (k - 1) \in clear THEN 0 ELSE 255 ],
      lum    |-> [ k \in 1..RowWidth |-> IF (k - 1) \in dark THEN 0 ELSE 255 ] ]

RgbaImages ==
    { RgbaRow(clear, dark) : clear \in SUBSET { 0, 7, 19 }, dark \in SUBSET { 3, 7 } }

InitForeground ==
    /\ image \in RgbaImages
    /\ ty = 0 /\ tx = 0 /\ pathParts = << >> /\ tpc = "scan" /\ traced = None
    /\ glyphs = createDefaultGlyphs /\ kerningPairs = EmptyKerning
    /\ previewText = << >> /\ previewMode = "typeset"
    /\ letterSpacingMultiplier = QI(1) /\ tracking = 0 /\ entries = << >>
    /\ ExportIdle /\ TransformIdle /\ LoadIdle /\ BoxIdle
    /\ SpacingIdle /\ UploadIdle

SpecForeground == InitForeground /\ [][NextTrace]_vars

\* the number of pixels whose alpha is above the alpha threshold
OpaqueCount == Cardinality({ k \in 1..Len(image.data) : image.data[k] > threshold })

\* fewer than 95% of the pixels have alpha above the threshold
TransparentBackground == OpaqueCount * 100 < 95 * Len(image.data)

\* the foreground test: alpha on a transparent background, darkness on an
\* opaque one
Foreground(x, y) ==
    IF TransparentBackground
      THEN AlphaAt(image, x, y) > threshold
      ELSE image.lum[(y * image.width + x) + 1] < brightnessThreshold

\* C27: when fewer than 95% of the pixels have alpha above the alpha
\* threshold, the pixels traced as ink are those whose alpha exceeds the
\* threshold; otherwise (exactly 95% included) they are those whose average
\* of red, green and blue is below the brightness threshold.
C27_ForegroundTest ==
    tpc = "done" =>
        \A x \in 0..(image.width - 1), y \in 0..(image.height - 1) :
            (\E k \in EmittedRuns : Covers(k, x, y)) <=> Foreground(x, y)

\* dark artwork on an opaque light background, traced as the whole canvas
WholeCanvasTraced ==
    /\ tpc = "done"
    /\ image = RgbaRow({}, { 3 })
    /\ Cardinality(EmittedRuns) = 1 /\ RunX(1) = 0 /\ RunW(1) = RowWidth

----------------------------------------------------------------------------
(* Glyph metrics under the editor: the advance and bearing sliders, the    *)
(* four operations of FontSpacingTools, Normalize All Glyphs and the font  *)
(* import, from the default session.  The preview text is empty, so the    *)
(* layout stays empty.                                                     *)

MaxCalls == 4       \* most slider and spacing-tool calls in a session
MaxDen == 100       \* largest denominator of a metric that autoTighten and
                    \* autoDistribute are applied to

\* the metrics of every glyph are held within the precision followed
WithinPrecision ==
    \A c \in DOMAIN glyphs :
        /\ glyphs[c].advance.d <= MaxDen
        /\ glyphs[c].leftBearing.d <= MaxDen
        /\ glyphs[c].rightBearing.d <= MaxDen

\* values the three metric sliders are moved to
SliderMoves ==
    { << "advance", 100 >>, << "leftBearing", 800 >>, << "rightBearing", 0 >> }
\* values the letter-spacing slider (0.5 .. 2) is moved to
LetterSpacingValues == { Q(1, 2), QI(1), QI(2) }
\* values the tracking slider (-500 .. 200) is moved to
TrackingValues == { -500, 0, 200 }

\* one of the metric sliders of the glyph editor, on the glyph c
MoveSlider(c, field, v) ==
    /\ calls < MaxCalls /\ calls' = calls + 1
    /\ updateGlyph(c, [ f \in { field } |-> QI(v) ])
    /\ UNCHANGED << kerningPairs, previewText, previewMode, letterSpacingMultiplier,
                    tracking, entries >>
    /\ UNCHANGED << exportVars, transformVars, traceVars, loadVars, boxVars, uploadVars >>

\* FontSpacingTools.applyLetterSpacing(value)
applyLetterSpacing(value) ==
    /\ calls < MaxCalls /\ calls' = calls + 1
    /\ LET ratio == QDiv(value, letterSpacing) IN
       glyphs' = [ key \in DOMAIN glyphs |->
                     [ glyphs[key] EXCEPT
                         !.advance = QMul(@, ratio),
                         !.leftBearing = QMul(@, ratio),
                         !.rightBearing = QMul(@, ratio) ] ]
    /\ letterSpacing' = value
    /\ UNCHANGED << kerningPairs, previewText, previewMode, letterSpacingMultiplier,
                    tracking, entries >>
    /\ UNCHANGED << saved, mounted, FontMaker_tracking >>
    /\ UNCHANGED << exportVars, transformVars, traceVars, boxVars, uploadVars >>

\* FontSpacingTools.applyTracking(value)
applyTracking(value) ==
    /\ calls < MaxCalls /\ calls' = calls + 1
    /\ LET delta == value - FontMaker_tracking IN
       glyphs' = [ key \in DOMAIN glyphs |->
                     [ glyphs[key] EXCEPT !.advance = QAdd(@, QI(delta)) ] ]
    /\ FontMaker_tracking' = value
    /\ UNCHANGED << kerningPairs, previewText, previewMode, letterSpacingMultiplier,
                    tracking, entries >>
    /\ UNCHANGED << saved, mounted, letterSpacing >>
    /\ UNCHANGED << exportVars, transformVars, traceVars, boxVars, uploadVars >>

\* FontSpacingTools.autoTighten
autoTighten ==
    /\ calls < MaxCalls /\ calls' = calls + 1
    /\ WithinPrecision
    /\ glyphs' = [ key \in DOMAIN glyphs |->
                     [ glyphs[key] EXCEPT
                         !.leftBearing = QMax(QI(0), QMul(@, Q(85, 100))),
                         !.rightBearing = QMax(QI(0), QMul(@, Q(85, 100))) ] ]
    /\ UNCHANGED << kerningPairs, previewText, previewMode, letterSpacingMultiplier,
                    tracking, entries >>
    /\ UNCHANGED << exportVars, transformVars, traceVars, loadVars, boxVars, uploadVars >>

\* values.reduce((acc, g) => acc + g.advance, 0)
RECURSIVE SumAdvances(_, _)
SumAdvances(gl, keys) ==
    IF keys = {} THEN QI(0)
    ELSE LET k == CHOOSE c \in keys : TRUE
         IN  QAdd(gl[k].advance, SumAdvances(gl, keys \ { k }))

\* a plausible slip: the spare room not clamped at 0
SpareUnclamped(averageAdvance, width) == QSub(averageAdvance, width)

\* spare = Math.max(averageAdvance - width, 0)
Spare(averageAdvance, width) == QMax(QSub(averageAdvance, width), QI(0))

\* the record autoDistribute gives a glyph
Distributed(g, averageAdvance) ==
    LET positive   == QLt(QI(0), g.advance)
        leftRatio  == IF positive THEN QDiv(g.leftBearing, g.advance) ELSE Q(1, 4)
        rightRatio == IF positive THEN QDiv(g.rightBearing, g.advance) ELSE Q(1, 4)
        width      == QMax(QSub(QSub(g.advance, g.leftBearing), g.rightBearing), QI(100))
    IN  [ g EXCEPT !.advance = averageAdvance,
                   !.leftBearing = QMul(Spare(averageAdvance, width), leftRatio),
                   !.rightBearing = QMul(Spare(averageAdvance, width), rightRatio) ]

\* FontSpacingTools.autoDistribute
autoDistribute ==
    /\ calls < MaxCalls /\ calls' = calls + 1
    /\ WithinPrecision
    /\ IF DOMAIN glyphs = {}
         THEN glyphs' = glyphs
         ELSE LET n   == Cardinality(DOMAIN glyphs)
                  avg == QDiv(SumAdvances(glyphs, DOMAIN glyphs),
                              QI(IF n > 1 THEN n ELSE 1))
              IN  glyphs' = [ key \in DOMAIN glyphs |-> Distributed(glyphs[key], avg) ]
    /\ UNCHANGED << kerningPairs, previewText, previewMode, letterSpacingMultiplier,
                    tracking, entries >>
    /\ UNCHANGED << exportVars, transformVars, traceVars, loadVars, boxVars, uploadVars >>

\* the advance Normalize All gives a character: 900 for a wide letter, 700
\* for another capital
NormalAdvance(char) == IF char \in { "M", "W" } THEN 900 ELSE 700

\* g.svg is set and its viewBox height is found
Normalizable(g) == ~Falsy(g.svg) /\ g.svg.vbHeight # 0

\* the pairs of commonKerns over the repertoire
commonKerns ==
    [ k \in { FontMaker_kerningKey("A", "V"), FontMaker_kerningKey("V", "A") } |-> -80 ]

\* the Normalize All Glyphs button
NormalizeAll ==
    /\ calls < MaxCalls /\ calls' = calls + 1
    /\ glyphs' = [ char \in DOMAIN glyphs |->
                     IF Normalizable(glyphs[char])
                       THEN [ glyphs[char] EXCEPT
                                !.scale = Q(800, glyphs[char].svg.vbHeight),
                                !.advance = QI(NormalAdvance(char)),
                                !.leftBearing = QI(50),
                                !.rightBearing = QI(50) ]
                       ELSE glyphs[char] ]
    /\ kerningPairs' = [ k \in DOMAIN kerningPairs \cup DOMAIN commonKerns |->
                           IF k \in DOMAIN commonKerns THEN commonKerns[k]
                                                       ELSE kerningPairs[k] ]
    /\ status' = "Normalized "
                   \o CountText(Cardinality({ k \in DOMAIN glyphs : ~Falsy(glyphs'[k].svg) }))
                   \o " glyphs and added 29 kerning pairs!"
    /\ UNCHANGED << previewText, previewMode, letterSpacingMultiplier, tracking, entries >>
    /\ UNCHANGED << guides, metadata, font >>
    /\ UNCHANGED << transformVars, traceVars, loadVars, boxVars, uploadVars >>

\* the fonts imported in this session: "A" with an outline, "V" with one or
\* unmapped, .notdef empty, no family name
SpacingFontFiles ==
    { f \in FontFiles :
        /\ f.kind = "font" /\ f.fontFamily = None
        /\ GlyphAt(f, 0).path = << >>
        /\ "A" \in ImportedChars(f) }

InitSpacing ==
    /\ glyphs = createDefaultGlyphs
    /\ kerningPairs = EmptyKerning
    /\ previewText = << >> /\ previewMode = "typeset"
    /\ letterSpacingMultiplier = QI(1) /\ tracking = 0 /\ entries = << >>
    /\ ExportIdle /\ TransformIdle /\ TraceIdle /\ LoadIdle /\ BoxIdle
    /\ SpacingIdle /\ UploadIdle

NextSpacing ==
    \/ \E c \in GlyphSet, m \in SliderMoves : MoveSlider(c, m[1], m[2])
    \/ \E value \in LetterSpacingValues : applyLetterSpacing(value)
    \/ \E value \in TrackingValues : applyTracking(value)
    \/ autoTighten
    \/ autoDistribute
    \/ NormalizeAll
    \/ \E file \in SpacingFontFiles : handleOTFImport(file)

SpecSpacing == InitSpacing /\ [][NextSpacing]_vars

\* C28: in every state reached from the default session by slider edits,
\* applyLetterSpacing, applyTracking, autoTighten, autoDistribute, Normalize
\* All and font import, every GlyphRecord has leftBearing >= 0 and
\* rightBearing >= 0.
C28_BearingsNonNegative ==
    \A c \in DOMAIN glyphs :
        /\ QLe(QI(0), glyphs[c].leftBearing)
        /\ QLe(QI(0), glyphs[c].rightBearing)

\* C28 witness: after autoDistribute on glyphs whose average advance is
\* below the ink width of one of them, that glyph's bearings are 0 and the
\* other's are not
C28_Witness ==
    /\ calls >= 2
    /\ glyphs["A"].advance = QI(350) /\ glyphs["V"].advance = QI(350)
    /\ glyphs["A"].leftBearing = QI(0) /\ glyphs["A"].rightBearing = QI(0)
    /\ QLt(QI(0), glyphs["V"].rightBearing)

\* an advance driven to zero or below by the tracking slider
AdvanceBelowZero ==
    \E c \in DOMAIN glyphs : QLe(glyphs[c].advance, QI(0))

----------------------------------------------------------------------------
(* The two global spacing controls on their own, from the default session *)
(* (multiplier 1, tracking 0, every glyph 600 / 100 / 100).               *)

NextReverse ==
    \/ \E value \in LetterSpacingValues : applyLetterSpacing(value)
    \/ \E value \in TrackingValues : applyTracking(value)

SpecReverse == InitSpacing /\ [][NextReverse]_vars

\* the advance and the bearings of a GlyphRecord
Metrics(g) == << g.advance, g.leftBearing, g.rightBearing >>

\* C30: after any interleaving of applyLetterSpacing and applyTracking calls
\* that brings the multiplier and the tracking offset back to the values
\* they had at the start, every GlyphRecord's advance, leftBearing and
\* rightBearing are what they were at the start.
C30_SpacingReversible ==
    (letterSpacing = QI(1) /\ FontMaker_tracking = 0) =>
        \A c \in DOMAIN glyphs : Metrics(glyphs[c]) = Metrics(createDefaultGlyphs[c])

\* both controls moved and moved back, one inside the other: the advance
\* has drifted by 100
SpacingDrift ==
    /\ calls = 4
    /\ letterSpacing = QI(1) /\ FontMaker_tracking = 0
    /\ glyphs["A"].advance = QI(500)
    /\ glyphs["A"].leftBearing = QI(100)

----------------------------------------------------------------------------
(* Artwork uploads: a staged file dropped on a character slot and the bulk *)
(* upload loop, both of which await tracePNGtoSVG.  handlePNGUpload and    *)
(* the updateGlyph it calls belong to the render in which the event        *)
(* handler was created, so the glyph they write to is the selectedGlyph of *)
(* that render: each operation carries it as target.                       *)

MaxInflight == 1    \* most dropped files whose trace is awaited at a time
MaxFiles == 2       \* most files of one bulk upload

\* documents the tracer returns for the files of the session
TracedArtwork ==
    { TracedDocument(1, 1, << RunPart(0, 0, 1) >>),
      TracedDocument(2, 1, << RunPart(0, 0, 2) >>) }

\* the files of a bulk upload: the character guessed from the name (None
\* when the name has none of the repertoire) and the document traced from it
UploadFiles ==
    { [ guessedChar |-> g, svg |-> d ] :
        g \in { Some("A"), Some("V"), None }, d \in TracedArtwork }
FileLists == UNION { [1..k -> UploadFiles] : k \in 1..MaxFiles }

InitUpload ==
    /\ glyphs = createDefaultGlyphs
    /\ kerningPairs = EmptyKerning
    /\ previewText = << >> /\ previewMode = "typeset"
    /\ letterSpacingMultiplier = QI(1) /\ tracking = 0 /\ entries = << >>
    /\ ExportIdle /\ TransformIdle /\ TraceIdle /\ LoadIdle /\ BoxIdle
    /\ SpacingIdle /\ UploadIdle

\* the parts of the state an upload never writes
UploadFrame ==
    UNCHANGED << kerningPairs, previewText, previewMode, letterSpacingMultiplier,
                 tracking, entries, guides, metadata, font,
                 transformVars, traceVars, loadVars, boxVars, spacingVars >>

\* onClick of a character slot
SelectGlyph(char) ==
    /\ selectedGlyph' = char
    /\ UNCHANGED << glyphs, status, inflight, bulk >>
    /\ UploadFrame

\* updateGlyph({ svg }) of the render whose selectedGlyph was target
ApplyTrace(target, svg) == glyphs' = [ glyphs EXCEPT ![target].svg = svg ]

\* onDrop of the slot of char, up to the await of the trace
Drop(char, svg) ==
    /\ Cardinality(inflight) < MaxInflight
    /\ selectedGlyph' = char
    /\ status' = "Tracing PNG to SVG..."
    /\ inflight' = inflight \cup
                     { [ target |-> selectedGlyph, slot |-> char, svg |-> svg ] }
    /\ UNCHANGED << glyphs, bulk >>
    /\ UploadFrame

\* the trace of a dropped file resolves: the rest of handlePNGUpload and of
\* onDrop
DropTraced(u) ==
    /\ u \in inflight
    /\ ApplyTrace(u.target, u.svg)
    /\ status' = "Assigned to \"" \o u.slot \o "\""
    /\ inflight' = inflight \ { u }
    /\ UNCHANGED << selectedGlyph, bulk >>
    /\ UploadFrame

\* the trace of a dropped file rejects: nothing after the await runs
DropFailed(u) ==
    /\ u \in inflight
    /\ inflight' = inflight \ { u }
    /\ UNCHANGED << glyphs, status, selectedGlyph, bulk >>
    /\ UploadFrame

\* the body of the bulk loop for file i, up to its first await, or the end
\* of the loop
BulkIteration(b, i) ==
    IF i > Len(b.files)
      THEN /\ status' = "Completed! Uploaded " \o CountText(Len(b.files)) \o " glyphs."
           /\ bulk' = None
           /\ UNCHANGED selectedGlyph
      ELSE IF b.files[i].guessedChar # None
             THEN /\ selectedGlyph' = b.files[i].guessedChar[1]
                  /\ status' = "Tracing PNG to SVG..."
                  /\ bulk' = Some([ b EXCEPT !.i = i, !.pc = "tracing" ])
             ELSE /\ status' = "Skipped file - couldn't determine character"
                  /\ bulk' = Some([ b EXCEPT !.i = i, !.pc = "delay" ])
                  /\ UNCHANGED selectedGlyph

\* onChange of the bulk upload input
BulkStart(files) ==
    /\ bulk = None
    /\ BulkIteration([ target |-> selectedGlyph, files |-> files, i |-> 1,
                       pc |-> "start" ], 1)
    /\ UNCHANGED << glyphs, inflight >>
    /\ UploadFrame

\* the trace of the current file of the bulk upload resolves
BulkTraced ==
    /\ bulk # None /\ bulk[1].pc = "tracing"
    /\ ApplyTrace(bulk[1].target, bulk[1].files[bulk[1].i].svg)
    /\ status' = "Trace complete and applied to glyph."
    /\ bulk' = Some([ bulk[1] EXCEPT !.pc = "delay" ])
    /\ UNCHANGED << selectedGlyph, inflight >>
    /\ UploadFrame

\* the trace of the current file of the bulk upload rejects: the loop ends
\* there
BulkFailed ==
    /\ bulk # None /\ bulk[1].pc = "tracing"
    /\ bulk' = None
    /\ UNCHANGED << glyphs, status, selectedGlyph, inflight >>
    /\ UploadFrame

\* the 100 ms delay of the bulk loop ends
BulkDelay ==
    /\ bulk # None /\ bulk[1].pc = "delay"
    /\ BulkIteration(bulk[1], bulk[1].i + 1)
    /\ UNCHANGED << glyphs, inflight >>
    /\ UploadFrame

NextUpload ==
    \/ \E char \in GlyphSet : SelectGlyph(char)
    \/ \E char \in GlyphSet, svg \in TracedArtwork : Drop(char, svg)
    \/ \E u \in inflight : DropTraced(u)
    \/ \E u \in inflight : DropFailed(u)
    \/ \E files \in FileLists : BulkStart(files)
    \/ BulkTraced
    \/ BulkFailed
    \/ BulkDelay

SpecUpload == InitUpload /\ [][NextUpload]_vars

\* the glyph table with the outline of c replaced and nothing else changed
Landed(c, svg) == glyphs' = [ glyphs EXCEPT ![c].svg = svg ]

\* C29: when the trace of a file dropped on the slot of c, or of a bulk file
\* recognised as c, completes, the traced outline replaces the outline of
\* the GlyphRecord of c and no other record changes, whichever glyph was
\* selected when the operation began and whatever happened in between.
C29_ArtworkLandsOnCharacter ==
    [][ /\ \A u \in inflight : DropTraced(u) => Landed(u.slot, u.svg)
        /\ BulkTraced =>
              Landed(bulk[1].files[bulk[1].i].guessedChar[1],
                     bulk[1].files[bulk[1].i].svg) ]_vars

\* a file dropped on the slot of V while A was selected has become the
\* outline of A
DroppedOnOtherGlyph ==
    /\ inflight = {} /\ bulk = None
    /\ status = "Assigned to \"V\""
    /\ selectedGlyph = "V"
    /\ ~Falsy(glyphs["A"].svg) /\ Falsy(glyphs["V"].svg)

====
